---------------------------- MODULE Spec2Model ----------------------------
(***************************************************************************)
(* State-machine model of the request coordinator (IntelligentAPICache)    *)
(* and of the memory tier of its store (HybridCache), "API Cache.js".      *)
(*                                                                         *)
(* The store is the one IntelligentAPICache constructs by default:         *)
(* redisClient = null, so HybridCache.get and HybridCache.set do their     *)
(* whole work synchronously when called and the `await` on their result    *)
(* only defers the caller's continuation by one microtask.  Continuations  *)
(* run in FIFO order (variable microtasks); the settlement of an origin    *)
(* call is a task of the event loop and runs only when no microtask is     *)
(* left.  Date.now() is the variable now, in abstract ticks.               *)
(*                                                                         *)
(* The store on its own (SpecStore) is a HybridCache constructed with any  *)
(* memoryLimit and with or without a redisClient, used directly by         *)
(* clients through get, set, del and clear.  A call of the redis client    *)
(* is answered in a step of its own (RedisAnswers) and the continuation    *)
(* of the awaiting method runs in a later step (StoreResume).  SpecEvict   *)
(* starts such a store from memory tiers that earlier calls have filled,   *)
(* SpecOverwrite lets the client set again and again in the small ones.    *)
(* SpecRace has two callers read and delete in a store whose redis server  *)
(* holds earlier values; SpecStats is a store whose counters (stats) are   *)
(* read, in the other specifications they are left out of the state.       *)
(*                                                                         *)
(* SpecStrategy applies the time-based invalidation strategy of            *)
(* CacheInvalidationManager (cache-invalidator.js) to entries of any age,  *)
(* with Date.now() in milliseconds.  SpecInvalidator is a manager of its   *)
(* own, used through setCache, getStaleData, registerDependency,           *)
(* invalidateCache, smartRefresh and invalidateByPattern by one caller at  *)
(* a time, each call one step; the storage helpers the file leaves out     *)
(* return the entry last written under a key, and the storage may reject   *)
(* a read.  SpecPattern starts such a manager with entries under several   *)
(* keys and invalidates them in batches.                                   *)
(*                                                                         *)
(* SpecKey computes the cache keys of two requests as generateCacheKey,    *)
(* sanitizeHeaders and hashString do, on the descriptor's JSON text and    *)
(* in 32-bit arithmetic; SpecKeyPairs does so for any two requests that    *)
(* carry no headers.                                                       *)
(*                                                                         *)
(* SpecWorker is the AdvancedServiceWorker of "Service Worker.js" handling *)
(* fetch events one after the other: handleFetch up to its first await is  *)
(* one step (HandleFetch), the settling of the strategy together with the  *)
(* rest of handleFetch another (StrategySettles).  fetch answers with an   *)
(* ok response, with another response, or rejects.                         *)
(***************************************************************************)
EXTENDS Integers, Sequences, FiniteSets, TLC

(***************************************************************************)
(* Bounds of the model.                                                    *)
(***************************************************************************)
NumCallers == 3
MaxTime == 2
MaxFailures == 3
TTL == 1
Cooldown == 1
FailureThreshold == 2
NumClients == 1
MaxHits == 2
MaxAccess == 3
\* The gets a store's counters record at most.
MaxGets == 3
\* HybridCache's default memoryLimit (options.memoryLimit || 100).
DefaultMemoryLimit == 100

Callers == 1..NumCallers
\* The callers that go through preload (with preload's default options).
Preloaders == {1}
\* The request descriptors (cache keys) and their URLs (breaker origins).
Keys == {"k1"}
\* The keys clients of the store use directly.
StoreKeys == {"k1", "k2"}
Urls == {"u"}
UrlOf(k) == "u"

\* JS null / undefined.
Null == "<null>"
\* Payloads the origin may answer with; "" is a falsy JSON value.
Values == {"a", "b", ""}
\* JS truthiness of a payload (or of null).
Truthy(v) == v # Null /\ v # ""
\* The number 1, as opposed to the string "1".
NumOne == "<1>"
\* Values clients hand to HybridCache.set: strings, and null.
StoreValues == {"a", "1", Null}
\* Date.now() + undefined, and an absent options.ttl.
NaN == -1
\* options.memoryLimit as given to the constructor (0: absent or zero).
ConfiguredLimits == {0, 1}
\* The priority of an entry in the memory tier (options.priority || 1).
Priorities == {1, 2}
\* Keys of entries that other sets put into the memory tier earlier, in the
\* order of their insertion.
EvictKeys ==
  <<"e01", "e02", "e03", "e04", "e05", "e06", "e07", "e08", "e09", "e10",
    "e11", "e12", "e13", "e14", "e15", "e16", "e17", "e18", "e19", "e20">>
\* options.memoryLimit of the stores whose eviction is examined.
SmallLimits == {0, 1, 2, 3}
LargeLimit == Len(EvictKeys)

\* options.validate: absent, or a predicate on the cached payload.
Validators == {"none", "notA"}
Validate(name, v) == IF name = "notA" THEN v # "a" ELSE TRUE

CircuitOpenError == "Circuit breaker open"
HttpError == "HTTP 500"
NetworkError == "Failed to fetch"
OriginErrors == {HttpError, NetworkError}

NoOutcome == [kind |-> "none", val |-> Null]
ValueOutcome(v) == [kind |-> "value", val |-> v]
ErrorOutcome(e) == [kind |-> "error", val |-> e]

NoOptions ==
  [key |-> "k1", forceRefresh |-> FALSE, fallback |-> Null,
   validate |-> "none", deduplicate |-> TRUE]

VARIABLES
  now,              \* Date.now()
  memoryCache,      \* HybridCache.memoryCache: entries in insertion order
  memoryLimit,      \* HybridCache.memoryLimit
  pendingRequests,  \* IntelligentAPICache.pendingRequests: keys marked true
  starter,          \* per key, the call that created the pending marker
  requestQueue,     \* IntelligentAPICache.requestQueue: key -> waiters
  circuitBreaker,   \* CircuitBreaker state per origin
  microtasks,       \* continuations ready to run, in FIFO order
  pc,               \* where each caller's cachedFetch call stands
  opts,             \* the options (and key) of each caller's call
  local,            \* the call's cached / data / stale local
  err,              \* the error caught at line 299
  outcome,          \* how the call's promise settled
  configuredLimit,  \* options.memoryLimit given to HybridCache's constructor
  redisClient,      \* whether HybridCache.redisClient is set
  redis,            \* what the redis server holds: key -> text (or Null)
  hitCounter,       \* HybridCache.hitCounter
  stats,            \* HybridCache.stats
  call,             \* the store method each client is in, with its arguments
  stage,            \* where that method stands
  reply,            \* what the redis client answered
  result,           \* what the method returned
  cacheEntry,       \* the entry an invalidation strategy is asked about
  checked,          \* the strategy's answer: options, verdict and action
  entries,          \* CacheInvalidationManager's stored entries, by key
  dependencies,     \* CacheInvalidationManager.dependencies
  invocation,       \* the manager's last call: arguments and what it did
  descriptors,      \* the two requests generateCacheKey is called for
  cacheKeys,        \* the keys generateCacheKey returned for them
  cacheStorage,     \* the service worker's caches: type -> paths held
  fetchEvent,       \* the request of the fetch event being handled
  worker            \* handleFetch's progress and what it did

\* The store's state beyond the memory tier, and its clients.
storeVars == <<configuredLimit, redisClient, redis, hitCounter, stats, call,
               stage, reply, result>>

\* The coordinator's own state.
coordinatorVars == <<pendingRequests, starter, requestQueue, circuitBreaker,
                     microtasks, pc, opts, local, err, outcome>>

\* What CacheInvalidationManager's strategies are applied to.
invalidatorVars == <<cacheEntry, checked, entries, dependencies, invocation>>

\* The requests generateCacheKey is applied to, and their keys.
keyVars == <<descriptors, cacheKeys>>

\* The service worker's state.
workerVars == <<cacheStorage, fetchEvent, worker>>

vars == <<now, memoryCache, memoryLimit, pendingRequests, starter,
          requestQueue, circuitBreaker, microtasks, pc, opts, local, err,
          outcome, storeVars, invalidatorVars, keyVars, workerVars>>

(***************************************************************************)
(* HybridCache: the memory tier, a Map kept as a sequence of entries in    *)
(* insertion order.                                                        *)
(***************************************************************************)
MapIndex(mc, k) ==
  IF \E i \in 1..Len(mc) : mc[i].key = k
  THEN CHOOSE i \in 1..Len(mc) : mc[i].key = k
  ELSE 0

MapHas(mc, k) == MapIndex(mc, k) # 0

MapGet(mc, k) == mc[MapIndex(mc, k)]

MapDelete(mc, k) ==
  SelectSeq(mc, LAMBDA e : e.key # k)

\* Map.set: an existing key keeps its place, a new key goes last.
MapSet(mc, e) ==
  IF MapHas(mc, e.key)
  THEN [mc EXCEPT ![MapIndex(mc, e.key)] = e]
  ELSE Append(mc, e)

\* calculateSize: the byte length of JSON.stringify(value).
calculateSize(v) ==
  IF v = Null THEN 4 ELSE IF v = NumOne THEN 1 ELSE Len(v) + 2

Score(e) == e.lastAccessed * e.priority

\* A sort that puts the later of two entries of equal score first.
RECURSIVE InsertSortedLaterFirst(_, _)
InsertSortedLaterFirst(sorted, e) ==
  IF sorted = << >> THEN << e >>
  ELSE IF Score(Head(sorted)) < Score(e)
       THEN << Head(sorted) >> \o InsertSortedLaterFirst(Tail(sorted), e)
       ELSE << e >> \o sorted

\* Array.prototype.sort with (a, b) => scoreA - scoreB: stable, ascending.
RECURSIVE InsertSorted(_, _)
InsertSorted(sorted, e) ==
  IF sorted = << >> THEN << e >>
  ELSE IF Score(Head(sorted)) <= Score(e)
       THEN << Head(sorted) >> \o InsertSorted(Tail(sorted), e)
       ELSE << e >> \o sorted

RECURSIVE SortByScore(_)
SortByScore(mc) ==
  IF mc = << >> THEN << >>
  ELSE InsertSorted(SortByScore(SubSeq(mc, 1, Len(mc) - 1)), mc[Len(mc)])

Max(a, b) == IF a >= b THEN a ELSE b

evictCount(limit) == Max(1, limit \div 10)

RECURSIVE DeleteFirst(_, _, _)
DeleteFirst(mc, sorted, n) ==
  IF n = 0 \/ sorted = << >> THEN mc
  ELSE DeleteFirst(MapDelete(mc, Head(sorted).key), Tail(sorted), n - 1)

evictFromMemory(mc, limit) ==
  DeleteFirst(mc, SortByScore(mc), evictCount(limit))

setToMemory(mc, limit, k, v, ttl, priority, t) ==
  LET room == IF Len(mc) >= limit THEN evictFromMemory(mc, limit) ELSE mc
  IN  MapSet(room, [key |-> k, value |-> v,
                    expiry |-> IF ttl = NaN THEN NaN ELSE t + ttl,
                    lastAccessed |-> t, priority |-> priority,
                    size |-> calculateSize(v)])

\* getFromMemory: the tier after the read, and what the read returns.
\* Date.now() > item.expiry; a comparison with NaN is false.
Expired(e, t) == e.expiry # NaN /\ t > e.expiry

getFromMemory(mc, k, t) ==
  IF ~MapHas(mc, k) THEN [cache |-> mc, result |-> Null]
  ELSE IF Expired(MapGet(mc, k), t)
       THEN [cache |-> MapDelete(mc, k), result |-> Null]
       ELSE [cache |-> [mc EXCEPT ![MapIndex(mc, k)].lastAccessed = t],
             result |-> MapGet(mc, k).value]

\* HybridCache.get with redisClient = null: the memory probe, else a miss.
HybridGet(mc, k, t) == getFromMemory(mc, k, t)

\* HybridCache.set with redisClient = null; options = { ttl }, priority 1.
HybridSet(mc, limit, k, v, ttl, t) == setToMemory(mc, limit, k, v, ttl, 1, t)

(***************************************************************************)
(* CircuitBreaker (constructed at line 249, called at lines 282 and 300).  *)
(***************************************************************************)
ClosedBreaker == [state |-> "closed", consecutiveFailures |-> 0, openedAt |-> 0]

\* canRequest: whether the call may go to the origin.
canRequest(cb, t) ==
  cb.state # "open" \/ t - cb.openedAt >= Cooldown

\* The breaker after canRequest: an open breaker past its cooldown half-opens.
afterCanRequest(cb, t) ==
  IF cb.state = "open" /\ t - cb.openedAt >= Cooldown
  THEN [cb EXCEPT !.state = "half-open"]
  ELSE cb

recordFailure(cb, t) ==
  LET n == cb.consecutiveFailures + 1
  IN  IF cb.state = "half-open" \/ (cb.state = "closed" /\ n >= FailureThreshold)
      THEN [state |-> "open", consecutiveFailures |-> n, openedAt |-> t]
      ELSE [cb EXCEPT !.consecutiveFailures = n]

(***************************************************************************)
(* IntelligentAPICache.                                                    *)
(***************************************************************************)
\* generateCacheKey: the call's request descriptor is its key.
KeyOf(c) == opts[c].key

\* A processQueue that settles only the first waiter.
processQueueFirstOnly(q, data, error) ==
  [w \in (IF q = << >> THEN {} ELSE {Head(q)}) |->
     IF error # Null THEN ErrorOutcome(error) ELSE ValueOutcome(data)]

\* A processQueue that resolves the waiters whatever the error.
processQueueIgnoresError(q, data, error) ==
  [w \in { q[i] : i \in 1..Len(q) } |-> ValueOutcome(data)]

\* processQueue: every waiter in the key's queue is rejected with the error,
\* or resolved with the data; the result maps each released waiter to how its
\* promise settled.
processQueue(q, data, error) ==
  [w \in { q[i] : i \in 1..Len(q) } |->
     IF error # Null THEN ErrorOutcome(error) ELSE ValueOutcome(data)]

\* Line 266: whether the cached value answers the call.
CacheAnswers(o, cached) ==
  Truthy(cached) /\ (o.validate = "none" \/ Validate(o.validate, cached))

\* The join test looking at the waiter queue instead of the pending marker.
ShouldJoinByQueue(o) == o.deduplicate /\ requestQueue[o.key] # << >>

\* Line 271: whether the call joins the fetch in flight.
ShouldJoin(o) == o.deduplicate /\ o.key \in pendingRequests

\* A call that never asks the breaker.
BreakerNotAsked(o) == TRUE

\* Line 282: whether the breaker lets the call go to the origin.
BreakerAllows(o) == canRequest(circuitBreaker[UrlOf(o.key)], now)

\* A catch block that does not report the failure.
FailureNotRecorded(o) == circuitBreaker

\* Line 300: the breaker after the catch block reported the failure.
FailureRecorded(o) ==
  [circuitBreaker EXCEPT ![UrlOf(o.key)] = recordFailure(@, now)]

\* A finally that leaves the pending marker in place.
MarkerKept(o) == pendingRequests

\* Line 314: the pending markers after the call's finally.
MarkerRemoved(o) == pendingRequests \ {o.key}

\* Line 304: whether the stale read satisfies the call.
StaleAnswers(stale) == Truthy(stale)

\* What is left of a call's frame once cachedFetch has returned its promise
\* (a waiter at line 272, a settled call): the options are no longer read.
Returned(o) == [NoOptions EXCEPT !.key = o.key]

\* The promise settles: processQueue releases the waiters and deletes the
\* queue, the call returns or throws, and finally removes the pending marker.
\* The released callers' continuations are queued, waiters first.
Settle(c, o, oc, data, error, tasks) ==
  LET released == processQueue(requestQueue[o.key], data, error)
  IN  /\ outcome' = [x \in Callers |->
                       IF x = c THEN oc
                       ELSE IF x \in DOMAIN released THEN released[x]
                       ELSE outcome[x]]
      /\ pc' = [x \in Callers |->
                  IF x = c \/ x \in DOMAIN released THEN "done" ELSE pc[x]]
      /\ requestQueue' = [requestQueue EXCEPT ![o.key] = << >>]
      /\ pendingRequests' = MarkerRemoved(o)
      /\ microtasks' = tasks \o SelectSeq(requestQueue[o.key],
                                          LAMBDA w : w \in DOMAIN released)
                              \o << c >>
      /\ starter' = [starter EXCEPT ![o.key] = IF @ = c THEN 0 ELSE @]
      /\ opts' = [opts EXCEPT ![c] = Returned(o)]
      /\ local' = [local EXCEPT ![c] = Null]
      /\ err' = [err EXCEPT ![c] = Null]

\* Line 279: the key is marked pending; the call that creates the marker is
\* the one later callers coalesce onto.
MarkPending(c, o) ==
  /\ pendingRequests' = pendingRequests \cup {o.key}
  /\ starter' = [starter EXCEPT ![o.key] =
                   IF o.key \in pendingRequests THEN @ ELSE c]

\* Lines 299-315, up to the await of line 303: the catch block.
Catch(c, o, e, tasks) ==
  /\ circuitBreaker' = FailureRecorded(o)
  /\ IF o.fallback = "stale"
     THEN /\ memoryCache' = HybridGet(memoryCache, o.key, now).cache
          /\ local' = [local EXCEPT ![c] =
                         HybridGet(memoryCache, o.key, now).result]
          /\ err' = [err EXCEPT ![c] = e]
          /\ pc' = [pc EXCEPT ![c] = "stale"]
          /\ microtasks' = Append(tasks, c)
          /\ MarkPending(c, o)
          /\ opts' = [opts EXCEPT ![c] = o]
          /\ UNCHANGED <<requestQueue, outcome>>
     ELSE /\ Settle(c, o, ErrorOutcome(e), Null, e, tasks)
          /\ UNCHANGED memoryCache

\* Lines 271-286: join the fetch in flight, or mark the key pending, ask the
\* breaker and call the origin.
Proceed(c, o, tasks) ==
  IF ShouldJoin(o)
  THEN /\ requestQueue' = [requestQueue EXCEPT ![o.key] = Append(@, c)]
       /\ pc' = [pc EXCEPT ![c] = "queued"]
       /\ microtasks' = tasks
       /\ opts' = [opts EXCEPT ![c] = Returned(o)]
       /\ local' = [local EXCEPT ![c] = Null]
       /\ UNCHANGED <<memoryCache, pendingRequests, starter, circuitBreaker,
                      err, outcome>>
  ELSE IF ~BreakerAllows(o)
       THEN Catch(c, o, CircuitOpenError, tasks)
       ELSE /\ MarkPending(c, o)
            /\ circuitBreaker' = [circuitBreaker EXCEPT ![UrlOf(o.key)] =
                                    afterCanRequest(@, now)]
            /\ pc' = [pc EXCEPT ![c] = "fetch"]
            /\ microtasks' = tasks
            /\ opts' = [opts EXCEPT ![c] = o]
            /\ local' = [local EXCEPT ![c] = Null]
            /\ UNCHANGED <<memoryCache, requestQueue, err, outcome>>

\* Calls in progress that may still record a failure.
Active == { c \in Callers : pc[c] \in {"get", "fetch"} }

MayStart(c) ==
  /\ pc[c] = "idle"
  /\ \A u \in Urls :
       circuitBreaker[u].consecutiveFailures + Cardinality(Active) < MaxFailures

\* A caller calls cachedFetch(url, options): lines 253-265 and, with
\* forceRefresh, on to line 286.
StartWith(c, o) ==
  /\ IF o.forceRefresh
     THEN Proceed(c, o, microtasks)
     ELSE /\ memoryCache' = HybridGet(memoryCache, o.key, now).cache
          /\ local' = [local EXCEPT ![c] =
                         HybridGet(memoryCache, o.key, now).result]
          /\ pc' = [pc EXCEPT ![c] = "get"]
          /\ microtasks' = Append(microtasks, c)
          /\ opts' = [opts EXCEPT ![c] = o]
          /\ UNCHANGED <<pendingRequests, starter, requestQueue,
                         circuitBreaker, err, outcome>>
  /\ UNCHANGED <<storeVars, invalidatorVars, keyVars, workerVars>>
  /\ UNCHANGED <<now, memoryLimit>>

CachedFetch(c) ==
  /\ MayStart(c)
  /\ \E k \in Keys, fr \in BOOLEAN, fb \in {Null, "stale"}, v \in Validators :
       \* validate is read only when the cache is (line 266)
       /\ fr => v = "none"
       /\ StartWith(c, [key |-> k, forceRefresh |-> fr, fallback |-> fb,
                        validate |-> v, deduplicate |-> TRUE])

\* preload(urls, options): cachedFetch with deduplicate: false (line 370).
PreloadFetch(c) ==
  /\ MayStart(c)
  /\ c \in Preloaders
  /\ \E k \in Keys, fr \in BOOLEAN :
       /\ StartWith(c, [key |-> k, forceRefresh |-> fr, fallback |-> Null,
                        validate |-> "none", deduplicate |-> FALSE])

\* Line 266 onwards, after the await of cache.get.
ResumeGet(c) ==
  /\ microtasks # << >> /\ Head(microtasks) = c
  /\ pc[c] = "get"
  /\ IF CacheAnswers(opts[c], local[c])
     THEN /\ outcome' = [outcome EXCEPT ![c] = ValueOutcome(local[c])]
          /\ pc' = [pc EXCEPT ![c] = "done"]
          /\ microtasks' = Append(Tail(microtasks), c)
          /\ opts' = [opts EXCEPT ![c] = Returned(opts[c])]
          /\ local' = [local EXCEPT ![c] = Null]
          /\ UNCHANGED <<memoryCache, pendingRequests, starter, requestQueue,
                         circuitBreaker, err>>
     ELSE Proceed(c, opts[c], Tail(microtasks))
  /\ UNCHANGED <<storeVars, invalidatorVars, keyVars, workerVars>>
  /\ UNCHANGED <<now, memoryLimit>>

\* The origin answers 2xx and the body parses: lines 286-294.
OriginSuccess(c) ==
  /\ microtasks = << >>
  /\ pc[c] = "fetch"
  /\ \E data \in Values :
       /\ memoryCache' = HybridSet(memoryCache, memoryLimit, KeyOf(c), data,
                                   TTL, now)
       /\ local' = [local EXCEPT ![c] = data]
  /\ pc' = [pc EXCEPT ![c] = "set"]
  /\ microtasks' = Append(microtasks, c)
  /\ UNCHANGED <<storeVars, invalidatorVars, keyVars, workerVars>>
  /\ UNCHANGED <<now, memoryLimit, pendingRequests, starter, requestQueue,
                 circuitBreaker, opts, err, outcome>>

\* The origin call rejects, or answers with !response.ok: line 289, 299.
OriginFailure(c) ==
  /\ microtasks = << >>
  /\ pc[c] = "fetch"
  /\ \E e \in OriginErrors : Catch(c, opts[c], e, microtasks)
  /\ UNCHANGED <<storeVars, invalidatorVars, keyVars, workerVars>>
  /\ UNCHANGED <<now, memoryLimit>>

\* Lines 296-298 and 314, after the await of cache.set.
ResumeSet(c) ==
  /\ microtasks # << >> /\ Head(microtasks) = c
  /\ pc[c] = "set"
  /\ Settle(c, opts[c], ValueOutcome(local[c]), local[c], Null,
            Tail(microtasks))
  /\ UNCHANGED <<storeVars, invalidatorVars, keyVars, workerVars>>
  /\ UNCHANGED <<now, memoryLimit, memoryCache, circuitBreaker>>

\* Lines 304-314, after the await of the stale read.
ResumeStale(c) ==
  /\ microtasks # << >> /\ Head(microtasks) = c
  /\ pc[c] = "stale"
  /\ IF StaleAnswers(local[c])
     THEN Settle(c, opts[c], ValueOutcome(local[c]), local[c], Null,
                 Tail(microtasks))
     ELSE Settle(c, opts[c], ErrorOutcome(err[c]), Null, err[c],
                 Tail(microtasks))
  /\ UNCHANGED <<storeVars, invalidatorVars, keyVars, workerVars>>
  /\ UNCHANGED <<now, memoryLimit, memoryCache, circuitBreaker>>

\* The caller's own continuation takes the settled result; it may call again.
Return(c) ==
  /\ microtasks # << >> /\ Head(microtasks) = c
  /\ pc[c] = "done"
  /\ microtasks' = Tail(microtasks)
  /\ pc' = [pc EXCEPT ![c] = "idle"]
  /\ outcome' = [outcome EXCEPT ![c] = NoOutcome]
  /\ opts' = [opts EXCEPT ![c] = NoOptions]
  /\ UNCHANGED <<storeVars, invalidatorVars, keyVars, workerVars>>
  /\ UNCHANGED <<now, memoryLimit, memoryCache, pendingRequests, starter,
                 requestQueue, circuitBreaker, local, err>>

\* Time passes.
Tick ==
  /\ now < MaxTime
  /\ now' = now + 1
  /\ UNCHANGED <<storeVars, invalidatorVars, keyVars, workerVars>>
  /\ UNCHANGED <<memoryCache, memoryLimit, pendingRequests, starter,
                 requestQueue, circuitBreaker, microtasks, pc, opts, local,
                 err, outcome>>

(***************************************************************************)
(* HybridCache used directly, with or without a redis client.              *)
(***************************************************************************)
Clients == 1..NumClients

\* What the redis client's promise rejects with.
RedisError == "redis error"
\* The reply of a command that carries no value (setex, del, flushdb).
RedisOk == "OK"

\* setToRedis, line 188: a string is stored as it is, anything else as its
\* JSON text.
Serialize(v) ==
  IF v = Null THEN "null" ELSE IF v = NumOne THEN "1" ELSE v

\* JSON.parse of a stored text; a text that is not JSON throws.
IsJson(text) == text \in {"1", "null"}
JsonParse(text) == IF text = "1" THEN NumOne ELSE Null

\* getFromRedis, lines 172-183, from the reply of redisClient.get: nothing
\* (or an empty text) is a miss, JSON text is parsed, other text returned raw.
getFromRedis(text) ==
  IF ~Truthy(text) THEN Null
  ELSE IF IsJson(text) THEN JsonParse(text) ELSE text

\* recordHit, lines 207-210.
recordHit(hc, k) == [hc EXCEPT ![k] = @ + 1]

\* The constructor's memoryLimit: options.memoryLimit || 100.
EffectiveLimit(configured) ==
  IF configured = 0 THEN DefaultMemoryLimit ELSE configured

\* The constructor's stats, lines 86-91.
NoStats == [hits |-> 0, misses |-> 0, memoryHits |-> 0, redisHits |-> 0]

\* The stats of a store whose getStats nobody calls: the counters are left
\* out of the state.
Unread == [unread |-> TRUE]

\* A get that changes no counter.
countNothing(st) == st

\* this.stats.hits++ with this.stats.memoryHits++ (lines 100-101) or with
\* this.stats.redisHits++ (lines 111-112).
countHit(st, tier) ==
  IF st = Unread THEN st ELSE [st EXCEPT !.hits = @ + 1, ![tier] = @ + 1]

\* this.stats.misses++, line 123.
countMiss(st) ==
  IF st = Unread THEN st ELSE [st EXCEPT !.misses = @ + 1]

\* The gets the counters have recorded.
Counted(st) == IF st = Unread THEN 0 ELSE st.hits + st.misses

NoCall ==
  [op |-> "none", key |-> "k1", value |-> Null, priority |-> 1,
   persistent |-> FALSE, ttl |-> NaN, skipMemory |-> FALSE,
   skipRedis |-> FALSE]

\* new HybridCache({ memoryLimit, redisClient }); the redis server is empty.
StoreInit(configured, withRedis) ==
  /\ configuredLimit = configured
  /\ redisClient = withRedis
  /\ redis = [k \in StoreKeys |-> Null]
  /\ hitCounter = [k \in StoreKeys |-> 0]
  /\ stats = Unread
  /\ call = [p \in Clients |-> NoCall]
  /\ stage = [p \in Clients |-> "idle"]
  /\ reply = [p \in Clients |-> Null]
  /\ result = [p \in Clients |-> Null]

\* The method returns (its promise settles) with r; of its arguments only
\* the key, the value and skipMemory are of interest from then on.
Finish(p, c, r) ==
  /\ call' = [call EXCEPT ![p] = [NoCall EXCEPT !.op = c.op, !.key = c.key,
                                                 !.value = c.value,
                                                 !.skipMemory = c.skipMemory]]
  /\ stage' = [stage EXCEPT ![p] = "done"]
  /\ result' = [result EXCEPT ![p] = r]
  /\ reply' = [reply EXCEPT ![p] = Null]

\* The method calls the redis client and awaits the answer.
AskRedis(p, c) ==
  /\ call' = [call EXCEPT ![p] = c]
  /\ stage' = [stage EXCEPT ![p] = "redis"]
  /\ UNCHANGED <<reply, result>>

RECURSIVE SumHits(_, _)
SumHits(hc, ks) ==
  IF ks = {} THEN 0
  ELSE LET k == CHOOSE x \in ks : TRUE IN hc[k] + SumHits(hc, ks \ {k})

\* The hits recorded so far, and the gets that may still record one.
TotalHits == SumHits(hitCounter, StoreKeys)
Reading == { p \in Clients : call[p].op = "get" /\ stage[p] # "done" }

\* get(key, options), lines 94-106 and, without a redis read, 122-124.
StoreGet(p) ==
  /\ stage[p] = "idle"
  /\ \E k \in StoreKeys, sm \in BOOLEAN, sr \in BOOLEAN, t \in {NaN, TTL} :
       LET c == [NoCall EXCEPT !.op = "get", !.key = k, !.ttl = t,
                               !.skipMemory = sm, !.skipRedis = sr]
           probe == getFromMemory(memoryCache, k, now)
           found == ~sm /\ probe.result # Null
       IN  /\ TotalHits + Cardinality(Reading) < MaxHits
           /\ Counted(stats) + Cardinality(Reading) < MaxGets
           /\ memoryCache' = IF sm THEN memoryCache ELSE probe.cache
           /\ IF found
              THEN /\ stats' = countHit(stats, "memoryHits")
                   /\ hitCounter' = recordHit(hitCounter, k)
                   /\ Finish(p, c, probe.result)
              ELSE /\ UNCHANGED hitCounter
                   /\ IF redisClient /\ ~sr
                      THEN AskRedis(p, c) /\ UNCHANGED stats
                      ELSE /\ stats' = countMiss(stats)
                           /\ Finish(p, c, Null)
  /\ UNCHANGED <<now, memoryLimit, configuredLimit, redisClient, redis,
                 coordinatorVars, invalidatorVars,
                 keyVars, workerVars>>

\* set(key, value, options), lines 127-133.
StoreSet(p) ==
  /\ stage[p] = "idle"
  /\ \E k \in StoreKeys, v \in StoreValues, ps \in BOOLEAN :
       \* options = { ttl, persistent }: the priority is left at its
       \* default, 1
       LET c == [NoCall EXCEPT !.op = "set", !.key = k, !.value = v,
                               !.ttl = TTL, !.persistent = ps]
       IN  /\ memoryCache' =
                setToMemory(memoryCache, memoryLimit, k, v, TTL, c.priority,
                            now)
           /\ IF redisClient THEN AskRedis(p, c) ELSE Finish(p, c, "true")
  /\ UNCHANGED <<now, memoryLimit, configuredLimit, redisClient, redis,
                 hitCounter, stats, coordinatorVars, invalidatorVars,
                 keyVars, workerVars>>

\* A del that leaves the redis server alone.
delMemoryOnly(withRedis) == FALSE

\* Line 219: whether del goes on to the redis client.
delAsksRedis(withRedis) == withRedis

\* del(key), lines 216-220.
StoreDel(p) ==
  /\ stage[p] = "idle"
  /\ \E k \in StoreKeys :
       LET c == [NoCall EXCEPT !.op = "del", !.key = k]
       IN  /\ memoryCache' = MapDelete(memoryCache, k)
           /\ IF delAsksRedis(redisClient)
              THEN AskRedis(p, c)
              ELSE Finish(p, c, Null)
  /\ UNCHANGED <<now, memoryLimit, configuredLimit, redisClient, redis,
                 hitCounter, stats, coordinatorVars, invalidatorVars,
                 keyVars, workerVars>>

\* clear(), lines 224-229.
StoreClear(p) ==
  /\ stage[p] = "idle"
  /\ memoryCache # << >>
  /\ memoryCache' = << >>
  /\ hitCounter' = [k \in StoreKeys |-> 0]
  /\ UNCHANGED stats
  /\ IF redisClient
     THEN AskRedis(p, [NoCall EXCEPT !.op = "clear"])
     ELSE Finish(p, [NoCall EXCEPT !.op = "clear"], Null)
  /\ UNCHANGED <<now, memoryLimit, configuredLimit, redisClient, redis,
                 coordinatorVars, invalidatorVars,
                 keyVars, workerVars>>

\* The redis server executes the command of client p and the client's promise
\* settles: with the server's answer, or rejected (the command was not run).
RedisAnswers(p) ==
  /\ stage[p] = "redis"
  /\ stage' = [stage EXCEPT ![p] = "resume"]
  /\ \E ok \in BOOLEAN :
       IF ~ok
       THEN /\ reply' = [reply EXCEPT ![p] = RedisError]
            /\ UNCHANGED redis
       ELSE CASE call[p].op = "get" ->
                   /\ reply' = [reply EXCEPT ![p] = redis[call[p].key]]
                   /\ UNCHANGED redis
              [] call[p].op = "set" ->
                   /\ reply' = [reply EXCEPT ![p] = RedisOk]
                   /\ redis' = [redis EXCEPT ![call[p].key] =
                                  Serialize(call[p].value)]
              [] call[p].op = "del" ->
                   /\ reply' = [reply EXCEPT ![p] = RedisOk]
                   /\ redis' = [redis EXCEPT ![call[p].key] = Null]
              [] OTHER ->
                   /\ reply' = [reply EXCEPT ![p] = RedisOk]
                   /\ redis' = [k \in StoreKeys |-> Null]
  /\ UNCHANGED <<now, memoryCache, memoryLimit, configuredLimit, redisClient,
                 hitCounter, stats, call, result, coordinatorVars,
                 invalidatorVars,
                 keyVars, workerVars>>

\* A redis hit that leaves the memory tier as it is.
promoteNothing(mc, limit, k, v, ttl, t) == mc

\* Line 115: this.setToMemory(key, redisResult, options.ttl), the priority
\* left at its default.
promote(mc, limit, k, v, ttl, t) == setToMemory(mc, limit, k, v, ttl, 1, t)

\* get after the await of getFromRedis, lines 108-124.
ResumeStoreGet(p) ==
  LET k == call[p].key
      redisResult == getFromRedis(reply[p])
  IN  IF reply[p] # RedisError /\ redisResult # Null
      THEN /\ stats' = countHit(stats, "redisHits")
           /\ hitCounter' = recordHit(hitCounter, k)
           /\ memoryCache' = promote(memoryCache, memoryLimit, k,
                                     redisResult, call[p].ttl, now)
           /\ Finish(p, call[p], redisResult)
      ELSE /\ stats' = countMiss(stats)
           /\ Finish(p, call[p], Null)
           /\ UNCHANGED <<hitCounter, memoryCache>>

\* A set that lets the redis client's rejection through.
setRethrows(r) == IF r = RedisError THEN RedisError ELSE "true"

\* set after the await of setToRedis, lines 134-141: a rejection is caught.
setReturns(r) == "true"

\* The continuation of the method that awaited the redis client.
StoreResume(p) ==
  /\ stage[p] = "resume"
  /\ CASE call[p].op = "get" -> ResumeStoreGet(p)
       [] call[p].op = "set" ->
            /\ Finish(p, call[p], setReturns(reply[p]))
            /\ UNCHANGED <<hitCounter, stats, memoryCache>>
       [] OTHER ->
            \* del, clear: a rejection of the redis client is not caught
            /\ Finish(p, call[p],
                      IF reply[p] = RedisError THEN RedisError ELSE Null)
            /\ UNCHANGED <<hitCounter, stats, memoryCache>>
  /\ UNCHANGED <<now, memoryLimit, configuredLimit, redisClient, redis,
                 coordinatorVars, invalidatorVars,
                 keyVars, workerVars>>

\* The client takes the result; it may call again.
StoreReturn(p) ==
  /\ stage[p] = "done"
  /\ call' = [call EXCEPT ![p] = NoCall]
  /\ stage' = [stage EXCEPT ![p] = "idle"]
  /\ result' = [result EXCEPT ![p] = Null]
  /\ UNCHANGED <<now, memoryCache, memoryLimit, configuredLimit, redisClient,
                 redis, hitCounter, stats, reply, coordinatorVars,
                 invalidatorVars,
                 keyVars, workerVars>>

(***************************************************************************)
(* CacheInvalidationManager: the invalidation strategies (setupStrategies, *)
(* src/cache-invalidator.js lines 13-46).                                  *)
(***************************************************************************)
\* An option that was not supplied: options.maxAge is undefined.
Undefined == -1

\* The default of the time-based strategy, line 17.
DefaultMaxAge == 3600000

\* a || b on numbers: 0 and undefined are falsy.
OrElse(a, b) == IF a = Undefined \/ a = 0 THEN b ELSE a

\* A check that already answers true at the instant the age equals maxAge.
timeBasedCheckAtLeast(entry, options, t) ==
  LET age == t - entry.timestamp
  IN  age >= OrElse(options.maxAge, DefaultMaxAge)

\* The time-based strategy's check, lines 15-18.
timeBasedCheck(entry, options, t) ==
  LET age == t - entry.timestamp
  IN  age > OrElse(options.maxAge, DefaultMaxAge)

\* The time-based strategy's action, line 19.
timeBasedAction == "refresh"

NoEntry == [timestamp |-> 0]
NoCheck == [options |-> [maxAge |-> Undefined], stale |-> FALSE,
            action |-> "none"]

\* new CacheInvalidationManager(): nothing stored, no dependency registered.
EmptyMap == [x \in {} |-> 0]

NoInvocation ==
  [op |-> "none", key |-> "", strategies |-> << >>, options |-> EmptyMap,
   evaluated |-> << >>, verdicts |-> << >>, actions |-> << >>,
   scheduled |-> 0, outcomes |-> EmptyMap,
   report |-> [total |-> 0, invalidated |-> 0, failed |-> 0],
   result |-> "none"]

ManagerInit ==
  /\ entries = EmptyMap
  /\ dependencies = EmptyMap
  /\ invocation = NoInvocation

InvalidatorInit ==
  /\ cacheEntry = NoEntry
  /\ checked = NoCheck
  /\ ManagerInit

\* When the entries asked about were written, how old they are by now, and
\* the maxAge values callers supply.
Timestamps == {0, 1000}
Ages == {0, 1, 2, 5, 3599999, 3600000, 3600001, 7200000, 7200001}
MaxAges == {0, 1, 3600000, 7200000}

\* strategyConfig.check(cacheEntry, options) of the time-based strategy, as
\* invalidateCache calls it at line 58, and the action it names.
CheckTimeBased ==
  /\ checked = NoCheck
  /\ \E m \in MaxAges \cup {Undefined} :
       LET options == [maxAge |-> m]
       IN  checked' = [options |-> options,
                       stale |-> timeBasedCheck(cacheEntry, options, now),
                       action |-> timeBasedAction]
  /\ UNCHANGED <<now, memoryCache, memoryLimit, cacheEntry, entries,
                 dependencies, invocation, storeVars, coordinatorVars,
                 keyVars, workerVars>>

(***************************************************************************)
(* CacheInvalidationManager: entries and dependency records.  The tier     *)
(* helpers (getFromMemoryCache, getFromLocalStorage, setToMemoryCache,     *)
(* setToLocalStorage, updateAccessTime, clearCache, ...) have no source;   *)
(* they are taken to keep, per key, the entry last written, to hand it     *)
(* back on a read, to persist what a read changes and to drop it on clear. *)
(* entry.memory tells whether this.memoryCache holds the entry as well.    *)
(***************************************************************************)
\* The key the manager's caller works on.
MgrKeys == {"user:1"}
DepKeys == {"childA"}

\* this.version, line 3, and another version a caller may ask for.
CodeVersion == "1.0.0"
Versions == {"1.0.0", "2.0.0"}

\* The data written: a text of 101 bytes.
BigData ==
  "0123456789012345678901234567890123456789012345678901234567890123456789012345678901234567890123456789x"
DataValues == {BigData}

\* calculateSize, lines 177-180, of a text: its length in bytes.
mgrCalculateSize(data) == Len(data)

\* The entry setCache builds, lines 137-145.
NewEntry(data, t, snapshot, high) ==
  [data |-> data, timestamp |-> t, version |-> CodeVersion,
   dependencies |-> snapshot, accessCount |-> 0,
   size |-> mgrCalculateSize(data), memory |-> high]

\* What getCacheEntry returns for a key nothing is stored under.
AbsentEntry == NewEntry("", 0, EmptyMap, FALSE)

\* getCacheEntry, lines 158-175: the entry found has its accessCount raised
\* and is handed to updateAccessTime, which persists it.
getCacheEntry(es, k) ==
  IF k \in DOMAIN es
  THEN LET read == [es[k] EXCEPT !.accessCount = @ + 1]
       IN  [found |-> TRUE, entry |-> read, entries |-> [es EXCEPT ![k] = read]]
  ELSE [found |-> FALSE, entry |-> AbsentEntry, entries |-> es]

\* A map with key k set to v (Map.set, or a tier write).
Put(m, k, v) == [x \in DOMAIN m \cup {k} |-> IF x = k THEN v ELSE m[x]]

\* A map without key k (clearCache).
Drop(m, k) == [x \in DOMAIN m \ {k} |-> m[x]]

RECURSIVE SumSizes(_, _)
SumSizes(es, ks) ==
  IF ks = {} THEN 0
  ELSE LET k == CHOOSE x \in ks : TRUE
       IN  (IF es[k].memory THEN es[k].size ELSE 0) + SumSizes(es, ks \ {k})

\* getTotalCacheSize, lines 182-188: the sizes of this.memoryCache's entries.
getTotalCacheSize(es) == SumSizes(es, DOMAIN es)

\* The snapshots a writer can take: the current records of some of the
\* registered dependencies.
Snapshots == { [d \in ds |-> dependencies[d]] : ds \in SUBSET DOMAIN dependencies }

\* Reads still allowed on key k: accessCount stays within MaxAccess.
MayRead(k, n) == k \in DOMAIN entries => entries[k].accessCount + n <= MaxAccess

\* setCache(key, data, { dependencies, priority }), lines 136-156.
SetCache ==
  /\ \E k \in MgrKeys, data \in DataValues, snapshot \in Snapshots,
        high \in BOOLEAN :
       /\ entries' = Put(entries, k, NewEntry(data, now, snapshot, high))
       /\ invocation' = [NoInvocation EXCEPT !.op = "setCache", !.key = k]
  /\ cacheEntry' = NoEntry
  /\ UNCHANGED <<now, memoryCache, memoryLimit, checked,
                 dependencies, storeVars, coordinatorVars,
                 keyVars, workerVars>>

\* getStaleData(key), lines 117-120: a read through getCacheEntry.
GetStaleData ==
  /\ \E k \in MgrKeys :
       LET got == getCacheEntry(entries, k)
       IN  /\ MayRead(k, 1)
           /\ entries' = got.entries
           /\ invocation' = [NoInvocation EXCEPT
                               !.op = "getStaleData", !.key = k,
                               !.result = IF got.found THEN got.entry.data
                                          ELSE Null]
  /\ cacheEntry' = NoEntry
  /\ UNCHANGED <<now, memoryCache, memoryLimit, checked,
                 dependencies, storeVars, coordinatorVars,
                 keyVars, workerVars>>

\* A registration whose stamp is the time left rather than the time passed.
registerCountingDown(deps, d, t) ==
  Put(deps, d, [keys |-> << >>, version |-> MaxTime - t])

\* registerDependency(parentKey, dependencyKeys), lines 122-127.
registerDependency(deps, d, t) == Put(deps, d, [keys |-> << >>, version |-> t])

RegisterDependency ==
  /\ \E d \in DepKeys :
       /\ dependencies' = registerDependency(dependencies, d, now)
       /\ invocation' = [NoInvocation EXCEPT !.op = "registerDependency",
                                             !.key = d]
  /\ cacheEntry' = NoEntry
  /\ UNCHANGED <<now, memoryCache, memoryLimit, checked, entries,
                 storeVars, coordinatorVars,
                 keyVars, workerVars>>

(***************************************************************************)
(* CacheInvalidationManager: strategies and invalidateCache.               *)
(***************************************************************************)
\* Whether the caller supplied options[name].
Supplied(options, name) == name \in DOMAIN options

\* const { name = default } = options: the default stands in for undefined.
OrDefault(options, name, default) ==
  IF Supplied(options, name) THEN options[name] ELSE default

\* The strategies setupStrategies registers, lines 13-46, and their actions.
Registered == {"time-based", "version-based", "dependency-based", "usage-based"}
ActionOf(strategy) == IF strategy = "time-based" THEN "refresh" ELSE "clear"

\* A strategy name nothing is registered under.
UnknownStrategy == "least-recently-used"

UnknownStrategyError == "Unknown invalidation strategy"
TypeError == "TypeError"
StorageError == "storage error"

\* A check that asks for equal versions.
versionBasedCheckSame(entry, options) ==
  Supplied(options, "currentVersion")
  /\ entry.version = options.currentVersion

\* The version-based check, lines 23-25: !== against undefined is true.
versionBasedCheck(entry, options) ==
  ~Supplied(options, "currentVersion")
  \/ entry.version # options.currentVersion

\* A comparison that takes a dependency missing from the entry's snapshot
\* for unchanged.
hasDependencyChangedInSnapshot(deps, d, cached) ==
  /\ d \in DOMAIN deps
  /\ d \in DOMAIN cached
  /\ deps[d].version # cached[d].version

\* hasDependencyChanged, lines 129-134.
hasDependencyChanged(deps, d, cached) ==
  /\ d \in DOMAIN deps
  /\ \/ d \notin DOMAIN cached
     \/ deps[d].version # cached[d].version

\* The dependency-based check, lines 30-34 (options.dependencies supplied).
dependencyBasedCheck(deps, entry, options) ==
  \E i \in 1..Len(options.dependencies) :
    hasDependencyChanged(deps, options.dependencies[i], entry.dependencies)

DefaultMaxSize == 100
DefaultMinHits == 1

\* The usage-based check, lines 39-43.
usageBasedCheck(es, entry, options) ==
  /\ entry.accessCount < OrDefault(options, "minHits", DefaultMinHits)
  /\ getTotalCacheSize(es) > OrDefault(options, "maxSize", DefaultMaxSize)

\* strategyConfig.check(cacheEntry, options), line 58.
StrategyCheck(strategy, es, deps, entry, options, t) ==
  CASE strategy = "time-based" ->
         timeBasedCheck(entry,
                        [maxAge |-> OrDefault(options, "maxAge", Undefined)], t)
    [] strategy = "version-based" -> versionBasedCheck(entry, options)
    [] strategy = "dependency-based" -> dependencyBasedCheck(deps, entry, options)
    [] OTHER -> usageBasedCheck(es, entry, options)

\* The check throws: options.dependencies.some on undefined.
CheckThrows(strategy, options) ==
  strategy = "dependency-based" /\ ~Supplied(options, "dependencies")

\* What a call of invalidateCache leaves behind.
Invalidation(es, res, checkedEntry, ran, act) ==
  [entries |-> es, result |-> res, entry |-> checkedEntry, evaluated |-> ran,
   action |-> act]

\* invalidateCache(key, strategy, options), lines 48-76.  storageFails: the
\* read of the entry is rejected by the storage behind it.
invalidateCache(es, deps, k, strategy, options, t, storageFails) ==
  LET got == getCacheEntry(es, k)
  IN  IF storageFails
      THEN Invalidation(es, StorageError, AbsentEntry, FALSE, "none")
      ELSE IF ~got.found
      THEN Invalidation(es, "false", AbsentEntry, FALSE, "none")
      ELSE IF strategy \notin Registered
      THEN Invalidation(got.entries, UnknownStrategyError, got.entry, FALSE,
                        "none")
      ELSE IF CheckThrows(strategy, options)
      THEN Invalidation(got.entries, TypeError, got.entry, TRUE, "none")
      ELSE IF StrategyCheck(strategy, got.entries, deps, got.entry, options, t)
      THEN Invalidation(IF ActionOf(strategy) = "clear"
                        THEN Drop(got.entries, k) ELSE got.entries,
                        "true", got.entry, TRUE, ActionOf(strategy))
      ELSE Invalidation(got.entries, "false", got.entry, TRUE, "none")

\* The options a caller passes with each strategy.
OptionsFor(strategy) ==
  CASE strategy = "time-based" -> {EmptyMap, [maxAge |-> 1]}
    [] strategy = "version-based" ->
         {EmptyMap} \cup { [currentVersion |-> v] : v \in Versions }
    [] strategy = "dependency-based" ->
         {EmptyMap, [dependencies |-> << >>], [dependencies |-> << "childA" >>]}
    [] strategy = "usage-based" ->
         {EmptyMap, [minHits |-> 2], [maxSize |-> 0],
          [minHits |-> 2, maxSize |-> 0]}
    [] OTHER -> {EmptyMap}

\* Keys a caller may name: the stored ones and one nothing is stored under.
CallKeys == MgrKeys \cup {"user:0"}

\* A call of invalidateCache by the manager's user.
InvalidateCache ==
  /\ \E k \in CallKeys, strategy \in Registered \cup {UnknownStrategy},
        storageFails \in BOOLEAN :
     \E options \in OptionsFor(strategy) :
       LET done == invalidateCache(entries, dependencies, k, strategy,
                                   options, now, storageFails)
       IN  /\ MayRead(k, 1)
           /\ entries' = done.entries
           /\ cacheEntry' = done.entry
           /\ invocation' =
                [NoInvocation EXCEPT
                   !.op = "invalidateCache", !.key = k,
                   !.strategies = << strategy >>, !.options = options,
                   !.evaluated = IF done.evaluated THEN << strategy >>
                                 ELSE << >>,
                   !.verdicts = IF done.evaluated
                                THEN << done.result = "true" >> ELSE << >>,
                   !.actions = IF done.action = "none" THEN << >>
                               ELSE << done.action >>,
                   !.result = done.result]
  /\ UNCHANGED <<now, memoryCache, memoryLimit, checked,
                 dependencies, storeVars, coordinatorVars,
                 keyVars, workerVars>>

(***************************************************************************)
(* CacheInvalidationManager: smartRefresh, lines 78-100.                   *)
(***************************************************************************)
FetchError == "fetch failed"

\* The state of a smartRefresh call as its loop runs: the stored entries, the
\* strategies whose check ran, what each answered, the actions executed, the
\* background refreshes scheduled, and how the loop was left.
StartRun(es) ==
  [entries |-> es, evaluated |-> << >>, verdicts |-> << >>, actions |-> << >>,
   scheduled |-> 0, exit |-> "loop"]

\* One invalidateCache call of the loop, line 86, added to the run.
AfterInvalidation(run, done, strategy) ==
  [run EXCEPT
     !.entries = done.entries,
     !.evaluated = IF done.evaluated THEN Append(@, strategy) ELSE @,
     !.verdicts = IF done.evaluated THEN Append(@, done.result = "true") ELSE @,
     !.actions = IF done.action = "none" THEN @ ELSE Append(@, done.action)]

\* The loop of lines 85-97 from the i-th strategy on.
RECURSIVE smartRefreshLoop(_, _, _, _, _, _, _)
smartRefreshLoop(run, deps, k, list, i, options, t) ==
  IF i > Len(list) THEN [run EXCEPT !.exit = "cached"]
  ELSE LET done == invalidateCache(run.entries, deps, k, list[i], options, t,
                                   FALSE)
           next == AfterInvalidation(run, done, list[i])
       IN  IF done.result \notin {"true", "false"}
           THEN [next EXCEPT !.exit = done.result]
           ELSE IF done.result = "true"
           THEN IF OrDefault(options, "backgroundRefresh", TRUE)
                THEN LET sched == [next EXCEPT !.scheduled = @ + 1]
                     IN  IF OrDefault(options, "fallbackToStale", TRUE)
                         THEN [sched EXCEPT !.exit = "stale"]
                         ELSE smartRefreshLoop(sched, deps, k, list, i + 1,
                                               options, t)
                ELSE [next EXCEPT !.exit = "refresh"]
           ELSE smartRefreshLoop(next, deps, k, list, i + 1, options, t)

\* What the call returns once the loop is left, and the entries then:
\* getStaleData (line 90), refreshAndGet (line 94, lines 102-115; fetchOk
\* tells whether fetchFn succeeds), getCacheData (line 99), or the error an
\* invalidateCache call threw.
smartRefreshReturn(run, k, t, fetchOk) ==
  LET got == getCacheEntry(run.entries, k)
      data == IF got.found THEN got.entry.data ELSE Null
  IN  CASE run.exit = "stale" -> [entries |-> got.entries, result |-> data]
        [] run.exit = "refresh" ->
             IF fetchOk
             THEN [entries |-> Put(run.entries, k,
                                   NewEntry(BigData, t, EmptyMap, FALSE)),
                   result |-> BigData]
             ELSE [entries |-> got.entries,
                   result |-> IF got.found THEN data ELSE FetchError]
        [] run.exit = "cached" ->
             [entries |-> run.entries,
              result |-> IF k \in DOMAIN run.entries THEN run.entries[k].data
                         ELSE Null]
        [] OTHER -> [entries |-> run.entries, result |-> run.exit]

\* The strategy lists and options a caller passes to smartRefresh.
DefaultStrategies == << "time-based", "dependency-based" >>
StrategyLists ==
  {DefaultStrategies, << "time-based", "version-based" >>,
   << "version-based", "time-based" >>}
RefreshModes ==
  {EmptyMap, [backgroundRefresh |-> TRUE, fallbackToStale |-> FALSE],
   [backgroundRefresh |-> FALSE]}
RefreshOptions ==
  {EmptyMap, [maxAge |-> 1, dependencies |-> << "childA" >>],
   [maxAge |-> 1, dependencies |-> << "childA" >>, currentVersion |-> "1.0.0"]}

\* The two option objects spread into one.
Merge(a, b) ==
  [x \in DOMAIN a \cup DOMAIN b |-> IF x \in DOMAIN b THEN b[x] ELSE a[x]]

\* smartRefresh(key, fetchFn, options).
SmartRefresh ==
  /\ \E k \in MgrKeys, list \in StrategyLists, mode \in RefreshModes,
        base \in RefreshOptions :
       LET options == Merge(base, mode)
           run == smartRefreshLoop(StartRun(entries), dependencies, k, list,
                                   1, options, now)
       IN  \E fetchOk \in IF run.exit = "refresh" THEN BOOLEAN ELSE {TRUE} :
           LET back == smartRefreshReturn(run, k, now, fetchOk)
           IN
           /\ MayRead(k, Len(list) + 1)
           /\ entries' = back.entries
           /\ invocation' =
                [NoInvocation EXCEPT
                   !.op = "smartRefresh", !.key = k, !.strategies = list,
                   !.options = options, !.evaluated = run.evaluated,
                   !.verdicts = run.verdicts, !.actions = run.actions,
                   !.scheduled = run.scheduled, !.result = back.result]
  /\ cacheEntry' = NoEntry
  /\ UNCHANGED <<now, memoryCache, memoryLimit, checked, dependencies,
                 storeVars, coordinatorVars,
                 keyVars, workerVars>>

(***************************************************************************)
(* CacheInvalidationManager: invalidateByPattern, lines 190-203.           *)
(***************************************************************************)
\* key.match(pattern), line 192, for a pattern of literal characters: the
\* pattern occurs somewhere in the key.
Matches(key, pattern) ==
  \E i \in 1..(Len(key) - Len(pattern) + 1) :
    SubSeq(key, i, i + Len(pattern) - 1) = pattern

\* getCacheKeys(), line 191: the keys entries are stored under.
getCacheKeys(es) == DOMAIN es

\* A batch that is given up at the first call that is rejected.
RECURSIVE settleUntilRejected(_, _, _, _, _, _)
settleUntilRejected(batch, deps, keys, strategy, t, failing) ==
  IF keys = {} THEN batch
  ELSE LET k == CHOOSE x \in keys : TRUE
           done == invalidateCache(batch.entries, deps, k, strategy, EmptyMap,
                                   t, k \in failing)
           next == [entries |-> done.entries,
                    outcomes |-> Put(batch.outcomes, k, done.result)]
       IN  IF done.result \in {"true", "false"}
           THEN settleUntilRejected(next, deps, keys \ {k}, strategy, t,
                                    failing)
           ELSE next

\* Promise.allSettled over one invalidateCache(key, strategy) call per
\* matching key, lines 194-196: every call runs to its end, whether it
\* returns or throws.  failing: the keys whose read the storage rejects.
RECURSIVE allSettled(_, _, _, _, _, _)
allSettled(batch, deps, keys, strategy, t, failing) ==
  IF keys = {} THEN batch
  ELSE LET k == CHOOSE x \in keys : TRUE
           done == invalidateCache(batch.entries, deps, k, strategy, EmptyMap,
                                   t, k \in failing)
       IN  allSettled([entries |-> done.entries,
                       outcomes |-> Put(batch.outcomes, k, done.result)],
                      deps, keys \ {k}, strategy, t, failing)

\* invalidateByPattern(pattern, strategy): the entries afterwards, how each
\* call ended, and the counts returned, lines 198-202.
invalidateByPattern(es, deps, pattern, strategy, t, failing) ==
  LET matchingKeys == {k \in getCacheKeys(es) : Matches(k, pattern)}
      results == allSettled([entries |-> es, outcomes |-> EmptyMap], deps,
                            matchingKeys, strategy, t, failing)
      fulfilledTrue == {k \in DOMAIN results.outcomes :
                          results.outcomes[k] = "true"}
      rejected == {k \in DOMAIN results.outcomes :
                     results.outcomes[k] \notin {"true", "false"}}
  IN  [entries |-> results.entries, outcomes |-> results.outcomes,
       report |-> [total |-> Cardinality(matchingKeys),
                   invalidated |-> Cardinality(fulfilledTrue),
                   failed |-> Cardinality(rejected)]]

\* The patterns a caller passes.
Patterns == {"user:", "1", "session"}

InvalidateByPattern ==
  /\ \E pattern \in Patterns, strategy \in Registered \cup {UnknownStrategy} :
       \E failing \in SUBSET {k \in DOMAIN entries : Matches(k, pattern)} :
         LET done == invalidateByPattern(entries, dependencies, pattern,
                                         strategy, now, failing)
         IN  /\ \A k \in DOMAIN entries : MayRead(k, 1)
             /\ entries' = done.entries
             /\ invocation' =
                  [NoInvocation EXCEPT
                     !.op = "invalidateByPattern", !.key = pattern,
                     !.strategies = << strategy >>,
                     !.outcomes = done.outcomes, !.report = done.report,
                     !.result = "report"]
  /\ cacheEntry' = NoEntry
  /\ UNCHANGED <<now, memoryCache, memoryLimit, checked, dependencies,
                 storeVars, coordinatorVars,
                 keyVars, workerVars>>

(***************************************************************************)
(* IntelligentAPICache: generateCacheKey, sanitizeHeaders and hashString,  *)
(* part_001 lines 332-366.                                                 *)
(***************************************************************************)
\* The printable ASCII characters in the order of their codes: 32 to 95,
\* and 97 to 126.
AsciiFrom32 ==
  " !\"#$%&'()*+,-./0123456789:;<=>?@ABCDEFGHIJKLMNOPQRSTUVWXYZ[\\]^_"
AsciiFrom97 == "abcdefghijklmnopqrstuvwxyz{|}~"

\* str.charCodeAt(i), line 361.
charCodeAt(str, i) ==
  LET char == SubSeq(str, i, i)
      At(table, n) == SubSeq(table, n, n)
  IN  IF \E n \in 1..Len(AsciiFrom97) : At(AsciiFrom97, n) = char
      THEN 96 + (CHOOSE n \in 1..Len(AsciiFrom97) : At(AsciiFrom97, n) = char)
      ELSE 31 + (CHOOSE n \in 1..Len(AsciiFrom32) : At(AsciiFrom32, n) = char)

\* A 32-bit integer in two's complement as its four bytes, the lowest first;
\* Word(n) for n from 0 to 2^31 - 1.
Byte == 256
Word(n) ==
  << n % Byte, (n \div Byte) % Byte, (n \div (Byte * Byte)) % Byte,
     n \div (Byte * Byte * Byte) >>
\* The four bytes of the number whose byte columns sum to c[1] .. c[4].
Carried(c) ==
  LET k2 == c[2] + (c[1] \div Byte)
      k3 == c[3] + (k2 \div Byte)
      k4 == c[4] + (k3 \div Byte)
  IN  << c[1] % Byte, k2 % Byte, k3 % Byte, k4 % Byte >>
\* Sum and product, cut to 32 bits.
Plus(a, b) == Carried([i \in 1..4 |-> a[i] + b[i]])
Times(a, b) ==
  Carried(<< a[1] * b[1],
             a[1] * b[2] + a[2] * b[1],
             a[1] * b[3] + a[2] * b[2] + a[3] * b[1],
             a[1] * b[4] + a[2] * b[3] + a[3] * b[2] + a[4] * b[1] >>)

\* hash = ((hash << 5) - hash) + char; hash = hash & hash, lines 362-363:
\* 31 * hash + char, cut to 32 bits.
hashStep(hash, char) == Plus(Times(hash, Word(31)), Word(char))

\* The loop of lines 360-364 over the characters from..to of str: it takes
\* the hash it starts with to hash * factor + offset, cut to 32 bits.  One
\* character's factor and offset are read off hashStep; two stretches of
\* characters in a row compose.
RECURSIVE hashLoop(_, _, _)
hashLoop(str, from, to) ==
  IF from = to
  THEN [factor |-> hashStep(Word(1), 0),
        offset |-> hashStep(Word(0), charCodeAt(str, from))]
  ELSE LET middle == (from + to) \div 2
           first == hashLoop(str, from, middle)
           second == hashLoop(str, middle + 1, to)
       IN  [factor |-> Times(first.factor, second.factor),
            offset |-> Plus(Times(first.offset, second.factor),
                            second.offset)]

\* hash.toString(36), line 365: the sign, then the magnitude's digits.
Digits36 == "0123456789abcdefghijklmnopqrstuvwxyz"
IsNegative(hash) == hash[4] >= Byte \div 2
Magnitude(hash) ==
  IF IsNegative(hash)
  THEN Plus([i \in 1..4 |-> Byte - 1 - hash[i]], Word(1))
  ELSE hash
RECURSIVE toBase36(_)
toBase36(m) ==
  LET t4 == m[4]
      t3 == (t4 % 36) * Byte + m[3]
      t2 == (t3 % 36) * Byte + m[2]
      t1 == (t2 % 36) * Byte + m[1]
      digit == SubSeq(Digits36, (t1 % 36) + 1, (t1 % 36) + 1)
      quotient == << t1 \div 36, t2 \div 36, t3 \div 36, t4 \div 36 >>
  IN  IF quotient = Word(0) THEN digit ELSE toBase36(quotient) \o digit
toString36(hash) ==
  (IF IsNegative(hash) THEN "-" ELSE "") \o toBase36(Magnitude(hash))

\* hashString(str), lines 358-366, the hash starting at 0.
hashString(str) ==
  toString36(IF Len(str) = 0 THEN Word(0)
             ELSE hashLoop(str, 1, Len(str)).offset)

\* sanitizeHeaders(headers), lines 345-356.  The headers object is the
\* sequence of its properties, each a name and a value, in insertion order;
\* a property is redacted when its name is one of the three and its value is
\* truthy, that is a non-empty string.
sensitive == {"authorization", "cookie", "x-api-key"}
Redacted == "***"
sanitizeHeaders(headers) ==
  [i \in DOMAIN headers |->
     IF headers[i].name \in sensitive /\ headers[i].value # ""
     THEN [headers[i] EXCEPT !.value = Redacted] ELSE headers[i]]

\* JSON.stringify of a string without characters to escape, of an object of
\* string properties, and of keyData, lines 335-342.
Quote(str) == "\"" \o str \o "\""
RECURSIVE stringifyProperties(_, _)
stringifyProperties(props, n) ==
  IF n = 0 THEN ""
  ELSE stringifyProperties(props, n - 1) \o (IF n = 1 THEN "" ELSE ",")
         \o Quote(props[n].name) \o ":" \o Quote(props[n].value)
stringifyHeaders(headers) ==
  "{" \o stringifyProperties(headers, Len(headers)) \o "}"
stringifyKeyData(keyData) ==
  "{\"url\":" \o Quote(keyData.url) \o ",\"method\":" \o Quote(keyData.method)
    \o ",\"headers\":" \o stringifyHeaders(keyData.headers)
    \o ",\"body\":"
    \o (IF keyData.body = Null THEN "null" ELSE Quote(keyData.body)) \o "}"

\* generateCacheKey(url, options), lines 332-343.  The options are a
\* function of the names supplied; the body, when supplied, is a string.
generateCacheKey(url, options) ==
  LET headers == OrDefault(options, "headers", << >>)
      body == OrDefault(options, "body", "")
      method == OrDefault(options, "method", "GET")
      keyData == [url |-> url, method |-> method,
                  headers |-> sanitizeHeaders(headers),
                  body |-> IF body # "" THEN hashString(Quote(body))
                           ELSE Null]
  IN  "api:" \o hashString(stringifyKeyData(keyData))

\* The requests whose keys are compared: one url, the method supplied or
\* not, and one header whose name is written as a client may write it, with
\* a value of its own in each of the two requests.
KeyUrls == {"/api/users"}
MethodOptions == {EmptyMap, [method |-> "GET"], [method |-> "POST"]}
HeaderNames ==
  {"authorization", "Authorization", "cookie", "COOKIE", "api-key",
   "x-api-key", "accept"}
HeaderValues == {"abc", "xyz", ""}
Request(url, base, name, value) ==
  [url |-> url,
   options |-> Merge(base, [headers |-> << [name |-> name, value |-> value] >>])]
RequestPairs ==
  { << Request(url, base, name, v1), Request(url, base, name, v2) >> :
      url \in KeyUrls, base \in MethodOptions, name \in HeaderNames,
      v1 \in HeaderValues, v2 \in HeaderValues }

NoRequests == << >>
NoKeys == << >>
KeyInit ==
  /\ descriptors = NoRequests
  /\ cacheKeys = NoKeys

\* generateCacheKey called for each of the two requests.
GenerateCacheKey ==
  /\ descriptors # NoRequests
  /\ cacheKeys = NoKeys
  /\ cacheKeys' = [i \in 1..2 |-> generateCacheKey(descriptors[i].url,
                                                   descriptors[i].options)]
  /\ UNCHANGED <<now, memoryCache, memoryLimit, descriptors, storeVars,
                 coordinatorVars, invalidatorVars, workerVars>>

(***************************************************************************)
(* AdvancedServiceWorker (src/unnamed/part_004): the fetch handler and its *)
(* caching strategies.  A cache of the Cache API is the set of paths it    *)
(* holds a response for.                                                   *)
(***************************************************************************)
\* pattern.test(pathname) for a pattern /...$/ of literal characters: the
\* pathname ends with them.
EndsWith(s, suffix) ==
  /\ Len(s) >= Len(suffix)
  /\ SubSeq(s, Len(s) - Len(suffix) + 1, Len(s)) = suffix

\* Object.entries(this.cacheConfig), lines 10-32: the types in the order
\* they are written, each with its first strategy and its patterns.
CacheTypes == <<"static", "api", "pages">>

configStrategy(type) ==
  CASE type = "static" -> "cache-first"
    [] type = "api" -> "network-first"
    [] OTHER -> "stale-while-revalidate"

\* config.patterns.some(pattern => pattern.test(pathname)), line 166.
patternsMatch(type, pathname) ==
  CASE type = "static" ->
         \E x \in {".css", ".js", ".png", ".jpg", ".jpeg", ".svg", ".webp"} :
           EndsWith(pathname, x)
    [] type = "api" -> Matches(pathname, "/api/")
    [] OTHER -> EndsWith(pathname, ".html") \/ Matches(pathname, "/")

\* s.replace(pattern, replacement) with a string as pattern, line 167: the
\* first occurrence is replaced, later ones are left.
replace(s, pattern, replacement) ==
  LET at == { i \in 1..(Len(s) - Len(pattern) + 1) :
                SubSeq(s, i, i + Len(pattern) - 1) = pattern }
  IN  IF at = {} THEN s
      ELSE LET i == CHOOSE x \in at : \A y \in at : x <= y
           IN  SubSeq(s, 1, i - 1) \o replacement
                 \o SubSeq(s, i + Len(pattern), Len(s))

\* getCacheStrategy(request), lines 162-172.
getCacheStrategy(pathname) ==
  LET matching == { i \in DOMAIN CacheTypes :
                      patternsMatch(CacheTypes[i], pathname) }
  IN  IF matching = {} THEN "stale_while_revalidate"
      ELSE LET i == CHOOSE x \in matching : \A y \in matching : x <= y
           IN  replace(configStrategy(CacheTypes[i]), "-", "_")

\* The methods of class AdvancedServiceWorker, lines 7-294: this[name] is a
\* function for these names and undefined for any other.
Methods ==
  {"init", "handleInstall", "handleActivate", "handleFetch", "handleMessage",
   "clearCache", "preloadResources", "getCacheStrategy", "cache_first",
   "network_first", "stale_while_revalidate", "network_only", "getCache",
   "updateCache", "getFallbackResponse", "isSameOrigin"}

\* What fetch(request) does: a response with ok, a response without (404,
\* 500), or a rejection (offline).
Net == {"ok", "not ok", "failed"}

InvalidStateError == "InvalidStateError"

\* Responses, by where they come from.
Cached == "cached response"
FromNetwork(net) ==
  IF net = "ok" THEN "network response" ELSE "network error response"
OfflinePage == "cached /offline.html"
OfflineHtml == "503 Offline text/html"
OfflinePlain == "503 Offline text/plain"

\* How a call ended: its promise resolved or rejected, or the call itself
\* threw; and the caches after it.
Resolved(v, cs) == [kind |-> "resolved", value |-> v, caches |-> cs]
Rejected(e, cs) == [kind |-> "rejected", value |-> e, caches |-> cs]
Thrown(e, cs) == [kind |-> "thrown", value |-> e, caches |-> cs]

\* cache.put(request, response) on the cache of a type.
cachePut(cs, type, pathname) == [cs EXCEPT ![type] = @ \cup {pathname}]

\* getFallbackResponse(request), lines 270-285; caches.match looks in every
\* cache.
getFallbackResponse(cs, pathname) ==
  IF EndsWith(pathname, ".html") \/ pathname = "/"
  THEN IF \E t \in DOMAIN cs : "/offline.html" \in cs[t]
       THEN OfflinePage ELSE OfflineHtml
  ELSE OfflinePlain

\* network_only(request), lines 241-243.
network_only(cs, pathname, net) ==
  IF net = "failed" THEN Rejected(NetworkError, cs)
  ELSE Resolved(FromNetwork(net), cs)

\* network_first(request), lines 193-214.
network_first(cs, pathname, net) ==
  IF net = "ok" THEN Resolved(FromNetwork(net), cachePut(cs, "api", pathname))
  ELSE IF pathname \in cs["api"] THEN Resolved(Cached, cs)
  ELSE Resolved(getFallbackResponse(cs, pathname), cs)

\* stale_while_revalidate(request), lines 219-236.
stale_while_revalidate(cs, pathname, net) ==
  LET after == IF net = "ok" THEN cachePut(cs, "pages", pathname) ELSE cs
  IN  IF pathname \in cs["pages"] THEN Resolved(Cached, after)
      ELSE IF net = "failed"
           THEN Resolved(getFallbackResponse(cs, pathname), after)
           ELSE Resolved(FromNetwork(net), after)

\* this[name](request): the call of a method of the worker by its name; a
\* name that is no method's is undefined, and calling it throws.
RECURSIVE Invoke(_, _, _, _)

\* cache_first(request), lines 177-188, with updateCache, lines 256-265, in
\* the background.
cache_first(cs, pathname, net) ==
  IF pathname \in cs["static"]
  THEN Resolved(Cached, IF net = "ok" THEN cachePut(cs, "static", pathname) ELSE cs)
  ELSE LET inner == Invoke("networkOnly", cs, pathname, net)
       IN  IF inner.kind = "thrown" THEN Rejected(inner.value, cs) ELSE inner

Invoke(name, cs, pathname, net) ==
  CASE name = "cache_first" -> cache_first(cs, pathname, net)
    [] name = "network_first" -> network_first(cs, pathname, net)
    [] name = "stale_while_revalidate" ->
         stale_while_revalidate(cs, pathname, net)
    [] name = "network_only" -> network_only(cs, pathname, net)
    [] OTHER -> Thrown(TypeError, cs)

\* The worker between two fetch events.
IdleWorker ==
  [pc |-> "idle", strategy |-> "", ran |-> FALSE, dispatching |-> FALSE,
   net |-> "", response |-> Null, answers |-> << >>, thrown |-> Null]

NoEvent == [path |-> "", method |-> "", origin |-> ""]
NoCaches == [t \in {"static", "api", "pages"} |-> {}]

WorkerInit ==
  /\ cacheStorage = NoCaches
  /\ fetchEvent = NoEvent
  /\ worker = IdleWorker

\* event.respondWith(response), lines 105 and 108.  The platform accepts it
\* only while the event is being dispatched and only once (Service Workers,
\* FetchEvent.respondWith); otherwise it throws.
respondWith(w, response) ==
  IF w.dispatching /\ w.answers = << >>
  THEN [w EXCEPT !.answers = Append(@, response), !.pc = "done"]
  ELSE [w EXCEPT !.thrown = InvalidStateError, !.pc = "done"]

\* handleFetch's catch block, lines 106-109: the argument of respondWith is
\* this.networkOnly(request).
handleFetchCatch(w, cs, pathname, net) ==
  LET fallback == Invoke("networkOnly", cs, pathname, net)
  IN  IF fallback.kind = "thrown"
      THEN [w EXCEPT !.thrown = fallback.value, !.pc = "done"]
      ELSE respondWith(w, FromNetwork(net))

\* The requests the browser hands to the fetch listener.
Paths ==
  {"/", "/index.html", "/about", "/css/styles.css", "/logo.png",
   "/api/users", "/api/posts", "/api/client.js"}
Requests ==
  [path : Paths, method : {"GET", "POST"},
   origin : {"same", "other", "chrome-extension"}]

\* isSameOrigin(request), lines 290-293.
isSameOrigin(request) == request.origin = "same"

\* handleFetch(event), lines 92-104, up to its first await: the event is
\* being dispatched.
HandleFetch ==
  /\ worker.pc = "idle"
  /\ \E request \in Requests :
       LET strategy == getCacheStrategy(request.path)
           w == [IdleWorker EXCEPT !.dispatching = TRUE]
       IN  /\ fetchEvent' = request
           /\ worker' =
                IF \/ request.method # "GET"
                   \/ request.origin = "chrome-extension"
                   \/ ~isSameOrigin(request)
                THEN [w EXCEPT !.pc = "done", !.dispatching = FALSE]
                ELSE IF strategy \notin Methods
                THEN \* line 104 throws; the catch block runs at once
                     [handleFetchCatch([w EXCEPT !.strategy = strategy],
                                       cacheStorage, request.path, "ok")
                        EXCEPT !.dispatching = FALSE]
                ELSE [w EXCEPT !.pc = "strategy", !.strategy = strategy,
                               !.ran = TRUE, !.dispatching = FALSE]
  /\ UNCHANGED <<now, memoryCache, memoryLimit, cacheStorage, storeVars,
                 coordinatorVars, invalidatorVars, keyVars>>

\* The strategy's promise settles, and handleFetch goes on after its await,
\* lines 104-109.
StrategySettles ==
  /\ worker.pc = "strategy"
  /\ \E net \in Net :
       LET r == Invoke(worker.strategy, cacheStorage, fetchEvent.path, net)
           w == [worker EXCEPT !.net = net]
       IN  /\ cacheStorage' = r.caches
           /\ worker' =
                IF r.kind = "resolved"
                THEN LET answered ==
                           respondWith([w EXCEPT !.response = r.value],
                                       r.value)
                     IN  IF answered.thrown = Null THEN answered
                         ELSE handleFetchCatch([w EXCEPT !.response = r.value],
                                               r.caches, fetchEvent.path, net)
                ELSE handleFetchCatch(w, r.caches, fetchEvent.path, net)
  /\ UNCHANGED <<now, memoryCache, memoryLimit, fetchEvent, storeVars,
                 coordinatorVars, invalidatorVars, keyVars>>

\* The event is over; the worker waits for the next.
EventOver ==
  /\ worker.pc = "done"
  /\ worker' = IdleWorker
  /\ fetchEvent' = NoEvent
  /\ UNCHANGED <<now, memoryCache, memoryLimit, cacheStorage, storeVars,
                 coordinatorVars, invalidatorVars, keyVars>>

Init ==
  /\ now = 0
  /\ memoryCache = << >>
  /\ memoryLimit = DefaultMemoryLimit
  /\ pendingRequests = {}
  /\ starter = [k \in Keys |-> 0]
  /\ requestQueue = [k \in Keys |-> << >>]
  /\ circuitBreaker = [u \in Urls |-> ClosedBreaker]
  /\ microtasks = << >>
  /\ pc = [c \in Callers |-> "idle"]
  /\ opts = [c \in Callers |-> NoOptions]
  /\ local = [c \in Callers |-> Null]
  /\ err = [c \in Callers |-> Null]
  /\ outcome = [c \in Callers |-> NoOutcome]
  /\ StoreInit(0, FALSE)
  /\ InvalidatorInit
  /\ KeyInit
  /\ WorkerInit

Next ==
  \/ \E c \in Callers : CachedFetch(c)
  \/ \E c \in Callers : ResumeGet(c)
  \/ \E c \in Callers : OriginSuccess(c)
  \/ \E c \in Callers : OriginFailure(c)
  \/ \E c \in Callers : ResumeSet(c)
  \/ \E c \in Callers : ResumeStale(c)
  \/ \E c \in Callers : Return(c)
  \/ Tick

\* Every call is a cachedFetch with deduplicate left at its default (true).
Spec == Init /\ [][Next]_vars

\* Calls made through preload run beside them.
NextPreload ==
  \/ Next
  \/ \E c \in Callers : PreloadFetch(c)

SpecPreload == Init /\ [][NextPreload]_vars

\* The event loop: a queued continuation runs, and an origin call in flight
\* settles once the microtask queue has drained.
RunMicrotask ==
  \E c \in Callers : ResumeGet(c) \/ ResumeSet(c) \/ ResumeStale(c) \/ Return(c)

OriginSettles ==
  \E c \in Callers : OriginSuccess(c) \/ OriginFailure(c)

EventLoop == WF_vars(RunMicrotask) /\ SF_vars(OriginSettles)

FairSpec == Init /\ [][Next]_vars /\ EventLoop

\* A HybridCache of its own, constructed with any limit, with or without a
\* redis client, and used through its public methods.
InitStore ==
  /\ now = 0
  /\ memoryCache = << >>
  /\ \E configured \in ConfiguredLimits, withRedis \in BOOLEAN :
       /\ memoryLimit = EffectiveLimit(configured)
       /\ StoreInit(configured, withRedis)
  /\ pendingRequests = {}
  /\ starter = [k \in Keys |-> 0]
  /\ requestQueue = [k \in Keys |-> << >>]
  /\ circuitBreaker = [u \in Urls |-> ClosedBreaker]
  /\ microtasks = << >>
  /\ pc = [c \in Callers |-> "idle"]
  /\ opts = [c \in Callers |-> NoOptions]
  /\ local = [c \in Callers |-> Null]
  /\ err = [c \in Callers |-> Null]
  /\ outcome = [c \in Callers |-> NoOutcome]
  /\ InvalidatorInit
  /\ KeyInit
  /\ WorkerInit

NextStore ==
  \/ \E p \in Clients : StoreGet(p)
  \/ \E p \in Clients : StoreSet(p)
  \/ \E p \in Clients : StoreDel(p)
  \/ \E p \in Clients : StoreClear(p)
  \/ \E p \in Clients : RedisAnswers(p)
  \/ \E p \in Clients : StoreResume(p)
  \/ \E p \in Clients : StoreReturn(p)
  \/ Tick

SpecStore == InitStore /\ [][NextStore]_vars

\* An entry some earlier set(key, "a", { ttl, priority }) left in the memory
\* tier, last read at time la.
EarlierEntry(k, la, pr) ==
  [key |-> k, value |-> "a", expiry |-> MaxTime + TTL, lastAccessed |-> la,
   priority |-> pr, size |-> calculateSize("a")]

\* Memory tiers of a store with a small limit: up to three entries (no more
\* than the limit), each with any priority, read at any time since 1.
SmallTiers(limit) ==
  UNION { { [i \in 1..n |-> EarlierEntry(EvictKeys[i], la[i], pr[i])] :
              la \in [1..n -> 1..MaxTime], pr \in [1..n -> Priorities] } :
          n \in { m \in 0..3 : m <= limit } }

\* Memory tiers of a store with the large limit, full or one short: all
\* entries of priority 1 read at MaxTime, but for up to two read at time 1
\* and for up to one of priority 2.
LargeTiers ==
  LET idx == 1..LargeLimit
      olds == {{}} \cup { {a, b} : a \in idx, b \in idx }
      heavies == {{}} \cup { {h} : h \in idx }
  IN  { [i \in 1..n |->
           EarlierEntry(EvictKeys[i],
                        IF i \in old THEN 1 ELSE MaxTime,
                        IF i \in heavy THEN 2 ELSE 1)] :
          old \in olds, heavy \in heavies, n \in {LargeLimit - 1, LargeLimit} }

\* A store without redis client, at time MaxTime, whose memory tier earlier
\* sets and gets have filled; a client is about to call set.
InitEvict ==
  /\ now = MaxTime
  /\ \E configured \in SmallLimits \cup {LargeLimit} :
       /\ memoryLimit = EffectiveLimit(configured)
       /\ StoreInit(configured, FALSE)
       /\ memoryCache \in IF configured = LargeLimit THEN LargeTiers
                          ELSE SmallTiers(EffectiveLimit(configured))
  /\ pendingRequests = {}
  /\ starter = [k \in Keys |-> 0]
  /\ requestQueue = [k \in Keys |-> << >>]
  /\ circuitBreaker = [u \in Urls |-> ClosedBreaker]
  /\ microtasks = << >>
  /\ pc = [c \in Callers |-> "idle"]
  /\ opts = [c \in Callers |-> NoOptions]
  /\ local = [c \in Callers |-> Null]
  /\ err = [c \in Callers |-> Null]
  /\ outcome = [c \in Callers |-> NoOutcome]
  /\ InvalidatorInit
  /\ KeyInit
  /\ WorkerInit

NextEvict == \E p \in Clients : StoreSet(p)

SpecEvict == InitEvict /\ [][NextEvict]_vars

\* The stores with a small limit among them, the client calling set again
\* and again.
InitOverwrite == InitEvict /\ configuredLimit \in SmallLimits

NextOverwrite == \E p \in Clients : StoreSet(p) \/ StoreReturn(p)

SpecOverwrite == InitOverwrite /\ [][NextOverwrite]_vars

\* Two callers of one HybridCache, as two requests handled in one process.
Racers == {1, 2}

\* A store with a redis client, its memory tier empty; the redis server
\* holds what earlier persistent sets of "a" left there.  The callers read
\* and delete, nobody sets.
InitRace ==
  /\ now = 0
  /\ memoryCache = << >>
  /\ memoryLimit = EffectiveLimit(0)
  /\ configuredLimit = 0
  /\ redisClient = TRUE
  /\ redis \in [StoreKeys -> {Null, "a"}]
  /\ hitCounter = [k \in StoreKeys |-> 0]
  /\ stats = Unread
  /\ call = [p \in Racers |-> NoCall]
  /\ stage = [p \in Racers |-> "idle"]
  /\ reply = [p \in Racers |-> Null]
  /\ result = [p \in Racers |-> Null]
  /\ pendingRequests = {}
  /\ starter = [k \in Keys |-> 0]
  /\ requestQueue = [k \in Keys |-> << >>]
  /\ circuitBreaker = [u \in Urls |-> ClosedBreaker]
  /\ microtasks = << >>
  /\ pc = [c \in Callers |-> "idle"]
  /\ opts = [c \in Callers |-> NoOptions]
  /\ local = [c \in Callers |-> Null]
  /\ err = [c \in Callers |-> Null]
  /\ outcome = [c \in Callers |-> NoOutcome]
  /\ InvalidatorInit
  /\ KeyInit
  /\ WorkerInit

NextRace ==
  \/ \E p \in Racers : StoreGet(p)
  \/ \E p \in Racers : StoreDel(p)
  \/ \E p \in Racers : RedisAnswers(p)
  \/ \E p \in Racers : StoreResume(p)
  \/ \E p \in Racers : StoreReturn(p)

SpecRace == InitRace /\ [][NextRace]_vars

\* A HybridCache whose counters are read: constructed with the default limit,
\* with or without a redis client, and used through its public methods.
InitStats ==
  /\ now = 0
  /\ memoryCache = << >>
  /\ memoryLimit = EffectiveLimit(0)
  /\ configuredLimit = 0
  /\ redisClient \in BOOLEAN
  /\ redis = [k \in StoreKeys |-> Null]
  /\ hitCounter = [k \in StoreKeys |-> 0]
  /\ stats = NoStats
  /\ call = [p \in Clients |-> NoCall]
  /\ stage = [p \in Clients |-> "idle"]
  /\ reply = [p \in Clients |-> Null]
  /\ result = [p \in Clients |-> Null]
  /\ pendingRequests = {}
  /\ starter = [k \in Keys |-> 0]
  /\ requestQueue = [k \in Keys |-> << >>]
  /\ circuitBreaker = [u \in Urls |-> ClosedBreaker]
  /\ microtasks = << >>
  /\ pc = [c \in Callers |-> "idle"]
  /\ opts = [c \in Callers |-> NoOptions]
  /\ local = [c \in Callers |-> Null]
  /\ err = [c \in Callers |-> Null]
  /\ outcome = [c \in Callers |-> NoOutcome]
  /\ InvalidatorInit
  /\ KeyInit
  /\ WorkerInit

\* The store is written, read, and time passes.
NextStats ==
  \/ \E p \in Clients : StoreGet(p)
  \/ \E p \in Clients : StoreSet(p)
  \/ \E p \in Clients : RedisAnswers(p)
  \/ \E p \in Clients : StoreResume(p)
  \/ \E p \in Clients : StoreReturn(p)
  \/ Tick

SpecStats == InitStats /\ [][NextStats]_vars

\* An entry written at some time, asked about when it has some age.
InitStrategy ==
  /\ \E ts \in Timestamps, age \in Ages :
       /\ cacheEntry = [timestamp |-> ts]
       /\ now = ts + age
  /\ checked = NoCheck
  /\ ManagerInit
  /\ KeyInit
  /\ WorkerInit
  /\ memoryCache = << >>
  /\ memoryLimit = DefaultMemoryLimit
  /\ StoreInit(0, FALSE)
  /\ pendingRequests = {}
  /\ starter = [k \in Keys |-> 0]
  /\ requestQueue = [k \in Keys |-> << >>]
  /\ circuitBreaker = [u \in Urls |-> ClosedBreaker]
  /\ microtasks = << >>
  /\ pc = [c \in Callers |-> "idle"]
  /\ opts = [c \in Callers |-> NoOptions]
  /\ local = [c \in Callers |-> Null]
  /\ err = [c \in Callers |-> Null]
  /\ outcome = [c \in Callers |-> NoOutcome]

NextStrategy == CheckTimeBased

SpecStrategy == InitStrategy /\ [][NextStrategy]_vars

\* A CacheInvalidationManager of its own, used through its public methods
\* by one caller at a time.
InitInvalidator ==
  /\ now = 0
  /\ memoryCache = << >>
  /\ memoryLimit = DefaultMemoryLimit
  /\ StoreInit(0, FALSE)
  /\ InvalidatorInit
  /\ KeyInit
  /\ WorkerInit
  /\ pendingRequests = {}
  /\ starter = [k \in Keys |-> 0]
  /\ requestQueue = [k \in Keys |-> << >>]
  /\ circuitBreaker = [u \in Urls |-> ClosedBreaker]
  /\ microtasks = << >>
  /\ pc = [c \in Callers |-> "idle"]
  /\ opts = [c \in Callers |-> NoOptions]
  /\ local = [c \in Callers |-> Null]
  /\ err = [c \in Callers |-> Null]
  /\ outcome = [c \in Callers |-> NoOutcome]

NextInvalidator ==
  \/ SetCache
  \/ GetStaleData
  \/ RegisterDependency
  \/ InvalidateCache
  \/ SmartRefresh
  \/ InvalidateByPattern
  \/ Tick

SpecInvalidator == InitInvalidator /\ [][NextInvalidator]_vars

\* A CacheInvalidationManager that already holds entries under some of the
\* keys of two users and one post, invalidated in batches.
PatternKeys == {"user:1", "user:2", "post:1"}
PatternStores ==
  { [k \in ks |-> NewEntry(BigData, 0, EmptyMap, FALSE)] :
    ks \in SUBSET PatternKeys }

InitPattern ==
  /\ now = 0
  /\ memoryCache = << >>
  /\ memoryLimit = DefaultMemoryLimit
  /\ StoreInit(0, FALSE)
  /\ cacheEntry = NoEntry
  /\ checked = NoCheck
  /\ entries \in PatternStores
  /\ dependencies = EmptyMap
  /\ invocation = NoInvocation
  /\ KeyInit
  /\ WorkerInit
  /\ pendingRequests = {}
  /\ starter = [k \in Keys |-> 0]
  /\ requestQueue = [k \in Keys |-> << >>]
  /\ circuitBreaker = [u \in Urls |-> ClosedBreaker]
  /\ microtasks = << >>
  /\ pc = [c \in Callers |-> "idle"]
  /\ opts = [c \in Callers |-> NoOptions]
  /\ local = [c \in Callers |-> Null]
  /\ err = [c \in Callers |-> Null]
  /\ outcome = [c \in Callers |-> NoOutcome]

NextPattern ==
  \/ InvalidateByPattern
  \/ Tick

SpecPattern == InitPattern /\ [][NextPattern]_vars

\* An IntelligentAPICache asked for the keys of two requests.
InitKey ==
  /\ now = 0
  /\ memoryCache = << >>
  /\ memoryLimit = DefaultMemoryLimit
  /\ StoreInit(0, FALSE)
  /\ InvalidatorInit
  /\ descriptors \in RequestPairs
  /\ cacheKeys = NoKeys
  /\ WorkerInit
  /\ pendingRequests = {}
  /\ starter = [k \in Keys |-> 0]
  /\ requestQueue = [k \in Keys |-> << >>]
  /\ circuitBreaker = [u \in Urls |-> ClosedBreaker]
  /\ microtasks = << >>
  /\ pc = [c \in Callers |-> "idle"]
  /\ opts = [c \in Callers |-> NoOptions]
  /\ local = [c \in Callers |-> Null]
  /\ err = [c \in Callers |-> Null]
  /\ outcome = [c \in Callers |-> NoOutcome]

NextKey == GenerateCacheKey

SpecKey == InitKey /\ [][NextKey]_vars

\* Requests without headers: a resource of the api, the method supplied or
\* not, a text as body or none.
ResourceUrls == {"/api/users", "/api/Aa", "/api/BB"}
BodyOptions == {EmptyMap, [body |-> "Aa"], [body |-> "BB"]}
PlainRequests ==
  { [url |-> url, options |-> Merge(m, b)] :
      url \in ResourceUrls, m \in MethodOptions, b \in BodyOptions }

\* An IntelligentAPICache asked for the keys of any two such requests.
InitKeyPairs ==
  /\ now = 0
  /\ memoryCache = << >>
  /\ memoryLimit = DefaultMemoryLimit
  /\ StoreInit(0, FALSE)
  /\ InvalidatorInit
  /\ descriptors \in { <<a, b>> : a \in PlainRequests, b \in PlainRequests }
  /\ cacheKeys = NoKeys
  /\ WorkerInit
  /\ pendingRequests = {}
  /\ starter = [k \in Keys |-> 0]
  /\ requestQueue = [k \in Keys |-> << >>]
  /\ circuitBreaker = [u \in Urls |-> ClosedBreaker]
  /\ microtasks = << >>
  /\ pc = [c \in Callers |-> "idle"]
  /\ opts = [c \in Callers |-> NoOptions]
  /\ local = [c \in Callers |-> Null]
  /\ err = [c \in Callers |-> Null]
  /\ outcome = [c \in Callers |-> NoOutcome]

SpecKeyPairs == InitKeyPairs /\ [][NextKey]_vars

\* The critical resources handleInstall preloads into the static cache,
\* lines 59-64.
criticalResources == {"/", "/offline.html", "/css/styles.css", "/js/app.js"}

\* An AdvancedServiceWorker, installed or with its preload failed, handling
\* one fetch event after the other.
InitWorker ==
  /\ now = 0
  /\ memoryCache = << >>
  /\ memoryLimit = DefaultMemoryLimit
  /\ StoreInit(0, FALSE)
  /\ InvalidatorInit
  /\ KeyInit
  /\ cacheStorage \in {NoCaches,
                       [NoCaches EXCEPT !["static"] = criticalResources]}
  /\ fetchEvent = NoEvent
  /\ worker = IdleWorker
  /\ pendingRequests = {}
  /\ starter = [k \in Keys |-> 0]
  /\ requestQueue = [k \in Keys |-> << >>]
  /\ circuitBreaker = [u \in Urls |-> ClosedBreaker]
  /\ microtasks = << >>
  /\ pc = [c \in Callers |-> "idle"]
  /\ opts = [c \in Callers |-> NoOptions]
  /\ local = [c \in Callers |-> Null]
  /\ err = [c \in Callers |-> Null]
  /\ outcome = [c \in Callers |-> NoOutcome]

NextWorker == HandleFetch \/ StrategySettles \/ EventOver

SpecWorker == InitWorker /\ [][NextWorker]_vars

(***************************************************************************)
(* Properties of the request coordinator.                                  *)
(***************************************************************************)
Breaker(k) == circuitBreaker[UrlOf(k)]

\* Calls whose origin call is in flight (between line 286 and its outcome).
InFlight(k) == { c \in Callers : pc[c] = "fetch" /\ KeyOf(c) = k }

\* Calls between line 279 and their finally: they own a pending marker.
Holders(k) ==
  { c \in Callers : pc[c] \in {"fetch", "set", "stale"} /\ KeyOf(c) = k }

Waiters(k) == { requestQueue[k][i] : i \in 1..Len(requestQueue[k]) }

\* C1: with deduplication enabled, at most one origin call per key is in
\* flight at any time: at most one call holds the key's pending marker, the
\* marker is there exactly while that call runs, and every caller that found
\* the marker sits in the key's queue beside the one call that holds it.
C1_OneOriginCallPerKey ==
  \A k \in Keys :
    /\ Cardinality(InFlight(k)) <= 1
    /\ Cardinality(Holders(k)) <= 1
    /\ (k \in pendingRequests) <=> (Holders(k) # {})
    /\ Waiters(k) # {} => Holders(k) # {}
    /\ \A w \in Waiters(k) : pc[w] = "queued"

\* Two callers asked for the key while its origin call was in flight and both
\* joined it.
C1_Witness ==
  \E k \in Keys :
    /\ Cardinality(InFlight(k)) = 1
    /\ Len(requestQueue[k]) = 2

\* C2: every waiter is released by the settlement of the fetch it joined (the
\* call that created the pending marker), in the same step and with the same
\* outcome as that call.
C2_WaitersShareStarterOutcome ==
  [][\A k \in Keys : \A w \in Waiters(k) :
       pc'[w] = "done" =>
         /\ starter[k] # 0
         /\ pc[starter[k]] # "done" /\ pc'[starter[k]] = "done"
         /\ outcome'[w] = outcome'[starter[k]]]_vars

\* C3: every caller that joined a fetch in flight as a waiter is eventually
\* released.
C3_WaitersReleased ==
  \A c \in Callers : (pc[c] = "queued") ~> (pc[c] = "done")

\* Two waiters and the call they joined were released together with the
\* origin's error.
C3_Witness ==
  /\ Len(microtasks) = 3
  /\ \A i \in 1..3 :
       /\ pc[microtasks[i]] = "done"
       /\ outcome[microtasks[i]] = ErrorOutcome(HttpError)

\* A step in which call c itself settles after line 279: on success, on an
\* origin failure, after the stale read, or at once on the breaker's refusal.
Settles(c) ==
  /\ pc'[c] = "done"
  /\ \/ pc[c] \in {"fetch", "set", "stale"}
     \/ pc[c] \in {"idle", "get"} /\ outcome'[c].kind = "error"

\* C4: a pending marker or a waiter queue exists for a key only while a call
\* holds the key (between line 279 and its finally), and the step in which a
\* call settles leaves neither for its key.
C4_NoMarkerWithoutFetch ==
  /\ [](\A k \in Keys :
          Holders(k) = {} => k \notin pendingRequests /\ requestQueue[k] = << >>)
  /\ [][\A c \in Callers :
          Settles(c) => /\ opts'[c].key \notin pendingRequests'
                        /\ requestQueue'[opts'[c].key] = << >>]_vars

\* A fetch that had a waiter has settled, and nothing is left for its key.
C4_Witness ==
  /\ Len(microtasks) = 2
  /\ \A i \in 1..2 : pc[microtasks[i]] = "done"
  /\ outcome[microtasks[1]] = ErrorOutcome(NetworkError)
  /\ outcome[microtasks[2]] = ErrorOutcome(NetworkError)
  /\ pendingRequests = {}
  /\ \A k \in Keys : requestQueue[k] = << >>

\* C5: a call without forceRefresh whose read found an unexpired entry that
\* passes validate returns that entry's value, whatever the value, creates no
\* pending marker and leaves the breaker alone.
C5_CacheHitAnswers ==
  [][\A c \in Callers :
       (/\ pc[c] = "get" /\ pc'[c] # "get"
        /\ local[c] # Null
        /\ Validate(opts[c].validate, local[c]))
       => /\ pc'[c] = "done"
          /\ outcome'[c] = ValueOutcome(local[c])
          /\ UNCHANGED <<pendingRequests, circuitBreaker, requestQueue>>]_vars

\* C6: on success the result is in the store when the waiters are released
\* and the marker removed, and a call for the key (no forceRefresh, no
\* validate) started after that release, when every other call has returned,
\* whose read finds that unexpired entry is answered with it and does not go
\* to the origin.
C6_SuccessIsCachedFirst ==
  [][\A c \in Callers :
       /\ (pc[c] = "set" /\ pc'[c] = "done" /\ MapHas(memoryCache, KeyOf(c)))
            => MapGet(memoryCache', KeyOf(c)).value = outcome'[c].val
       /\ (/\ pc[c] = "get" /\ pc'[c] # "get"
           /\ opts[c].validate = "none"
           /\ \A x \in Callers \ {c} : pc[x] = "idle"
           /\ MapHas(memoryCache, KeyOf(c))
           /\ ~Expired(MapGet(memoryCache, KeyOf(c)), now)
           /\ local[c] = MapGet(memoryCache, KeyOf(c)).value)
            => /\ pc'[c] = "done"
               /\ outcome'[c] = ValueOutcome(local[c])]_vars

\* Whether the breaker is open and still within its cooldown.
OpenInCooldown(cb, t) == cb.state = "open" /\ t - cb.openedAt < Cooldown

\* C7: a call that missed the cache and reaches the breaker check while the
\* breaker is open and within its cooldown never goes to the origin and fails
\* with the circuit-open error (after the stale read, when fallback is stale).
C7_OpenBreakerFailsFast ==
  [][\A c \in Callers :
       /\ (/\ pc[c] = "get" /\ pc'[c] # "get"
           /\ local[c] = Null
           /\ ~ShouldJoin(opts[c])
           /\ OpenInCooldown(Breaker(KeyOf(c)), now))
            => /\ pc'[c] # "fetch"
               /\ \/ pc'[c] = "done"
                       /\ outcome'[c] = ErrorOutcome(CircuitOpenError)
                  \/ pc'[c] = "stale" /\ local'[c] = Null
                       /\ err'[c] = CircuitOpenError
       /\ (/\ pc[c] = "stale" /\ pc'[c] # "stale"
           /\ local[c] = Null /\ err[c] = CircuitOpenError)
            => /\ pc'[c] = "done"
               /\ outcome'[c] = ErrorOutcome(CircuitOpenError)]_vars

\* A call that read the cache at time 0, found nothing, and was rejected by
\* the open breaker; with fallback "stale" its stale read found nothing too.
C7_Witness ==
  \E c \in Callers :
    /\ now = 0
    /\ pc[c] = "stale"
    /\ ~opts[c].forceRefresh /\ opts[c].validate = "none"
    /\ local[c] = Null
    /\ err[c] = CircuitOpenError
    /\ OpenInCooldown(Breaker(KeyOf(c)), now)

\* A step in which call c's origin call fails (line 289 or a rejected fetch).
OriginFailed(c) == pc[c] = "fetch" /\ pc'[c] \in {"stale", "done"}

\* C8: an origin failure adds one to consecutiveFailures; the breaker goes
\* from closed to open, with openedAt = now, exactly when the count reaches
\* the threshold; a failure while half-open reopens it with openedAt = now;
\* the state is always closed, open or half-open.
C8_FailuresOpenBreaker ==
  /\ [](\A u \in Urls :
          circuitBreaker[u].state \in {"closed", "open", "half-open"})
  /\ [][\A c \in Callers : OriginFailed(c) =>
          LET cb == Breaker(KeyOf(c))
              nb == circuitBreaker'[UrlOf(KeyOf(c))]
          IN  /\ nb.consecutiveFailures = cb.consecutiveFailures + 1
              /\ cb.state = "closed" =>
                   /\ (nb.state = "open") <=>
                        (nb.consecutiveFailures = FailureThreshold)
                   /\ nb.state \in {"closed", "open"}
                   /\ nb.state = "open" => nb.openedAt = now
              /\ cb.state = "half-open" =>
                   nb.state = "open" /\ nb.openedAt = now]_vars
  /\ [][\A u \in Urls :
          (circuitBreaker[u].state = "closed" /\ circuitBreaker'[u].state = "open")
            => \E c \in Callers : OriginFailed(c)]_vars

\* An origin failure has just brought the count to the threshold and opened
\* the breaker.
C8_Witness ==
  \E u \in Urls, c \in Callers :
    /\ circuitBreaker[u].state = "open"
    /\ circuitBreaker[u].openedAt = now /\ now > 0
    /\ circuitBreaker[u].consecutiveFailures = FailureThreshold
    /\ pc[c] = "done" /\ outcome[c] = ErrorOutcome(HttpError)

\* C9: when a call has handled its origin's success (lines 286-298) the
\* breaker of its origin is closed with consecutiveFailures = 0.
C9_SuccessResetsBreaker ==
  [][\A c \in Callers :
       (pc[c] = "set" /\ pc'[c] = "done")
         => /\ circuitBreaker'[UrlOf(KeyOf(c))].consecutiveFailures = 0
            /\ circuitBreaker'[UrlOf(KeyOf(c))].state = "closed"]_vars

\* C10: when the origin call fails with fallback "stale" and the store holds
\* a (truthy) value for the key, expired or not, the stale read yields that
\* value and the call and its waiters are released with it.
C10_StaleFallbackServesLastKnown ==
  [][\A c \in Callers :
       /\ (/\ OriginFailed(c)
           /\ opts[c].fallback = "stale"
           /\ MapHas(memoryCache, KeyOf(c))
           /\ Truthy(MapGet(memoryCache, KeyOf(c)).value))
            => /\ pc'[c] = "stale"
               /\ local'[c] = MapGet(memoryCache, KeyOf(c)).value
       /\ (pc[c] = "stale" /\ pc'[c] # "stale" /\ Truthy(local[c]))
            => /\ outcome'[c] = ValueOutcome(local[c])
               /\ \A w \in Waiters(KeyOf(c)) :
                    outcome'[w] = ValueOutcome(local[c])]_vars

\* A step in which the breaker refuses call c (line 283).
BreakerRefused(c) ==
  /\ pc[c] \in {"idle", "get"}
  /\ \/ pc'[c] = "stale"
     \/ pc'[c] = "done" /\ outcome'[c].kind = "error"

\* C11: when the origin call fails, or the breaker refuses the call, and no
\* stale value answers (fallback not requested, or the stale read found
\* nothing), the call is rejected with that very error, the origin's or the
\* breaker's, and so is every waiter in the key's queue.
C11_OriginalErrorSurfaced ==
  [][\A c \in Callers :
       LET k == KeyOf(c)
           SameForWaiters ==
             \A w \in Waiters(k) : pc'[w] = "done" /\ outcome'[w] = outcome'[c]
       IN
       /\ (OriginFailed(c) /\ opts[c].fallback # "stale")
            => /\ pc'[c] = "done"
               /\ outcome'[c].kind = "error"
               /\ outcome'[c].val \in OriginErrors
               /\ SameForWaiters
       /\ (OriginFailed(c) /\ opts[c].fallback = "stale")
            => pc'[c] = "stale" /\ err'[c] \in OriginErrors
       /\ BreakerRefused(c)
            => \/ pc'[c] = "stale" /\ err'[c] = CircuitOpenError
               \/ /\ opts[c].fallback # "stale"
                  /\ outcome'[c] = ErrorOutcome(CircuitOpenError)
       /\ (pc[c] = "stale" /\ pc'[c] # "stale" /\ local[c] = Null)
            => /\ pc'[c] = "done"
               /\ outcome'[c] = ErrorOutcome(err[c])
               /\ SameForWaiters]_vars

\* An origin call has failed with HTTP 500 and the call and the waiter that
\* had joined it have both been rejected with that error.
C11_Witness ==
  \E c \in Callers : \E w \in Callers \ {c} :
    /\ microtasks = << w, c >>
    /\ pc[c] = "done" /\ outcome[c] = ErrorOutcome(HttpError)
    /\ pc[w] = "done" /\ outcome[w] = ErrorOutcome(HttpError)

(***************************************************************************)
(* Properties of the memory tier of HybridCache.                           *)
(***************************************************************************)
Min(a, b) == IF a <= b THEN a ELSE b

\* The client whose set has just written the memory tier, if any.
SetStep(p) == stage[p] = "idle" /\ stage'[p] # "idle" /\ call'[p].op = "set"

\* The entries of the tier before the step that are gone after it.
Evicted ==
  { i \in 1..Len(memoryCache) : ~MapHas(memoryCache', memoryCache[i].key) }

\* C12: a set of a key the memory tier does not hold, when the tier holds at
\* least as many entries as the limit the store was constructed with, removes
\* max(1, floor(limit / 10)) entries (all of them if the tier holds fewer)
\* before it inserts; below the limit it removes none.
C12_EvictsTenthAtLimit ==
  [][\A p \in Clients :
       (SetStep(p) /\ ~MapHas(memoryCache, call'[p].key))
       => /\ MapHas(memoryCache', call'[p].key)
          /\ Cardinality(Evicted) =
               IF Len(memoryCache) >= configuredLimit
               THEN Min(Len(memoryCache), Max(1, configuredLimit \div 10))
               ELSE 0]_vars

\* C13: the entries a set evicts are the lowest by lastAccessed * priority,
\* the earlier inserted first among equal scores: every evicted entry has a
\* lower score than every entry that stays, or the same score and an earlier
\* place in insertion order; with one priority throughout, none that stays
\* was read before an evicted one.
C13_LowestScoreEvictedFirst ==
  [][\A p \in Clients : SetStep(p) =>
       \A i \in Evicted : \A j \in (1..Len(memoryCache)) \ Evicted :
         /\ \/ Score(memoryCache[i]) < Score(memoryCache[j])
            \/ Score(memoryCache[i]) = Score(memoryCache[j]) /\ i < j
         /\ (\A x \in 1..Len(memoryCache) : memoryCache[x].priority = 1)
            => memoryCache[i].lastAccessed <= memoryCache[j].lastAccessed]_vars

\* A set on a full tier of twenty, the fifth entry read long ago and all
\* others of one score: the fifth and the first inserted are gone.
C13_Witness ==
  \E p \in Clients :
    /\ stage[p] = "done" /\ call[p].op = "set"
    /\ configuredLimit = LargeLimit
    /\ Len(memoryCache) = LargeLimit - 1
    /\ ~MapHas(memoryCache, EvictKeys[5])
    /\ ~MapHas(memoryCache, EvictKeys[1])
    /\ \A i \in 1..Len(memoryCache) :
         memoryCache[i].lastAccessed = MaxTime /\ memoryCache[i].priority = 1

\* C14: after any sequence of set, get (promotions from redis included), del
\* and clear, the memory tier holds no more entries than the limit the store
\* was constructed with.
C14_MemoryWithinConfiguredLimit == Len(memoryCache) <= configuredLimit

(***************************************************************************)
(* Properties of HybridCache's tiers.                                      *)
(***************************************************************************)
\* Client p's get returns in this step.
GetReturns(p) == call[p].op = "get" /\ stage[p] = "resume" /\ stage'[p] = "done"

\* Client p's get starts in this step, reading the memory tier.
GetStarts(p) == stage[p] = "idle" /\ call'[p].op = "get"

\* What a get of key k made now, with default options, finds in memory.
MemoryHolds(mc, k, t) == getFromMemory(mc, k, t).result

\* C15: get reads the memory tier first and, when that holds a value for the
\* key, returns it without asking redis; a get that missed in memory and hit
\* in redis has copied the value into the memory tier when it returns, so
\* that a get of the key made at once finds it there, with the same value.
C15_RedisHitPromoted ==
  [][\A p \in Clients :
       /\ (/\ GetStarts(p) /\ ~call'[p].skipMemory
           /\ MemoryHolds(memoryCache, call'[p].key, now) # Null)
          => /\ stage'[p] = "done"
             /\ result'[p] = MemoryHolds(memoryCache, call'[p].key, now)
       /\ (GetStarts(p) /\ stage'[p] = "redis")
          => \/ call'[p].skipMemory
             \/ MemoryHolds(memoryCache, call'[p].key, now) = Null
       /\ (GetReturns(p) /\ result'[p] # Null)
          => MemoryHolds(memoryCache', call[p].key, now') = result'[p]]_vars

\* A get has returned the number that redis held as text, the key's first
\* hit, and the memory tier holds the copy (made without ttl).
C15_Witness ==
  \E p \in Clients :
    /\ stage[p] = "done" /\ call[p].op = "get"
    /\ hitCounter[call[p].key] = 1
    /\ MapHas(memoryCache, call[p].key)
    /\ MapGet(memoryCache, call[p].key).expiry = NaN
    /\ MapGet(memoryCache, call[p].key).value = result[p]
    /\ result[p] = NumOne

\* Client p's get returns in this step, from the memory probe or after the
\* redis read.
GetEnds(p) ==
  /\ stage[p] \in {"idle", "resume"} /\ stage'[p] = "done"
  /\ call'[p].op = "get"

\* No entry's hit count and no entry's lastAccessed differs after the step.
AccessUntouched ==
  /\ hitCounter' = hitCounter
  /\ \A i \in 1..Len(memoryCache') :
       /\ MapHas(memoryCache, memoryCache'[i].key)
       /\ MapGet(memoryCache, memoryCache'[i].key).lastAccessed =
            memoryCache'[i].lastAccessed

\* C16: a get that returns a value, from memory or from redis, has raised the
\* key's hit count by one, left the other counts alone and set the entry's
\* lastAccessed to the time of the read; a get that returns null has changed
\* no hit count and no entry's lastAccessed.
C16_HitsCountedMissesSilent ==
  [][\A p \in Clients : GetEnds(p) =>
       LET k == call'[p].key
       IN  IF result'[p] # Null
           THEN /\ hitCounter' = recordHit(hitCounter, k)
                /\ MapHas(memoryCache', k)
                /\ MapGet(memoryCache', k).lastAccessed = now
           ELSE AccessUntouched]_vars

\* C17: set writes the entry to the memory tier whatever its options, and
\* sends it to redis, the one other tier, only when options.persistent is
\* set or options.priority is above the default.
C17_OnlyRequestedTiersWritten ==
  [][\A p \in Clients : SetStep(p) =>
       /\ MapHas(memoryCache', call'[p].key)
       /\ MapGet(memoryCache', call'[p].key).value = call'[p].value
       /\ stage'[p] = "redis"
          => call'[p].persistent \/ call'[p].priority > 1]_vars

\* Client p's set resumes in this step after redis rejected its write.
SetFailedInRedis(p) ==
  /\ call[p].op = "set" /\ stage[p] = "resume" /\ stage'[p] # "resume"
  /\ reply[p] = RedisError

\* C18: a set whose redis write was rejected still returns true, no error
\* reaches its caller, and the handling of the failure leaves the memory
\* tier as the set wrote it, the new value in place.
C18_RedisFailureAbsorbed ==
  [][\A p \in Clients :
       /\ SetStep(p)
          => /\ MapHas(memoryCache', call'[p].key)
             /\ MapGet(memoryCache', call'[p].key).value = call'[p].value
       /\ SetFailedInRedis(p)
          => /\ stage'[p] = "done"
             /\ result'[p] = "true"
             /\ memoryCache' = memoryCache]_vars

\* A set of "a" has returned true; redis, which rejected the write, holds
\* nothing for the key, and the memory tier holds "a".
C18_Witness ==
  \E p \in Clients :
    /\ redisClient
    /\ stage[p] = "done" /\ call[p].op = "set" /\ call[p].value = "a"
    /\ result[p] = "true"
    /\ redis[call[p].key] = Null
    /\ MapHas(memoryCache, call[p].key)
    /\ MapGet(memoryCache, call[p].key).value = "a"

\* Client p's del is called in this step.
DelStep(p) == stage[p] = "idle" /\ call'[p].op = "del"

\* Redis executes client p's del in this step.
RedisDeletes(p) ==
  /\ call[p].op = "del" /\ stage[p] = "redis" /\ stage'[p] = "resume"
  /\ reply'[p] # RedisError

\* Client p's del returns in this step, redis not having rejected it.
DelReturns(p) ==
  /\ call'[p].op = "del" /\ stage[p] # "done" /\ stage'[p] = "done"
  /\ reply[p] # RedisError

\* C19: del removes the key from the memory tier and, with a redis client
\* whose command is not rejected, from redis, leaving every other key in
\* both as it was, and returns without error; on a key that is in neither
\* tier it changes nothing, and a second del of the key would leave the
\* state the first one left.
C19_DelRemovesEverywhere ==
  [][\A p \in Clients :
       /\ DelStep(p)
          => /\ memoryCache' = MapDelete(memoryCache, call'[p].key)
             /\ MapDelete(memoryCache', call'[p].key) = memoryCache'
             /\ redisClient => stage'[p] = "redis"
             /\ UNCHANGED <<redis, hitCounter>>
       /\ RedisDeletes(p)
          => /\ redis' = [redis EXCEPT ![call[p].key] = Null]
             /\ redis[call[p].key] = Null => redis' = redis
             /\ UNCHANGED <<memoryCache, hitCounter>>
       /\ DelReturns(p)
          => /\ result'[p] = Null
             /\ stage[p] = "resume"
                => UNCHANGED <<memoryCache, redis, hitCounter>>]_vars

\* A del has returned without error for a key that had been read, and
\* neither the memory tier nor redis holds the key, while redis keeps the
\* other key.
C19_Witness ==
  \E p \in Clients :
    /\ redisClient
    /\ stage[p] = "done" /\ call[p].op = "del" /\ result[p] = Null
    /\ hitCounter[call[p].key] = 1
    /\ ~MapHas(memoryCache, call[p].key)
    /\ redis[call[p].key] = Null
    /\ \E k \in StoreKeys \ {call[p].key} : redis[k] # Null

(***************************************************************************)
(* Properties of the invalidation strategies.                              *)
(***************************************************************************)
\* C20: the time-based check answers true exactly when now minus the
\* entry's timestamp exceeds the maxAge supplied, whatever that value, and
\* measures against 3,600,000 only when none is supplied; its action is
\* refresh.
C20_TimeBasedUsesSuppliedMaxAge ==
  checked # NoCheck =>
    LET age == now - cacheEntry.timestamp
        maxAge == checked.options.maxAge
    IN  /\ checked.stale = (age > IF maxAge = Undefined THEN 3600000
                                  ELSE maxAge)
        /\ checked.action = "refresh"

\* The time-based check has been made with a maxAge from 1 on supplied.
CheckedWithMaxAge ==
  checked # NoCheck /\ checked.options.maxAge \notin {Undefined, 0}

Called(op) == invocation'.op = op /\ now' = now

\* The step is invalidateCache(key, strategy, options) on a stored entry
\* whose read the storage did not reject.
Invalidates(strategy) ==
  /\ Called("invalidateCache")
  /\ invocation'.strategies = << strategy >>
  /\ invocation'.key \in DOMAIN entries
  /\ invocation'.result # StorageError

\* C22: invalidateCache(key, 'version-based', { currentVersion }) on a
\* stored entry returns true and leaves no entry under the key exactly when
\* the entry's version differs from currentVersion; when the two are equal it
\* returns false and the entry stays with its data and version.
C22_VersionMismatchClears ==
  [][(Invalidates("version-based")
      /\ Supplied(invocation'.options, "currentVersion"))
     => LET k == invocation'.key
        IN  IF entries[k].version # invocation'.options.currentVersion
            THEN /\ invocation'.result = "true"
                 /\ k \notin DOMAIN entries'
            ELSE /\ invocation'.result = "false"
                 /\ k \in DOMAIN entries'
                 /\ entries'[k].data = entries[k].data
                 /\ entries'[k].version = entries[k].version]_vars

\* A version-based invalidation against version 2.0.0 has returned true and
\* cleared the entry.
C22_Witness ==
  /\ invocation.op = "invalidateCache"
  /\ invocation.strategies = << "version-based" >>
  /\ invocation.options = [currentVersion |-> "2.0.0"]
  /\ invocation.result = "true"
  /\ invocation.actions = << "clear" >>
  /\ invocation.key \in MgrKeys
  /\ invocation.key \notin DOMAIN entries

\* Dependency d, registered, has a version other than the one the entry's
\* snapshot recorded for it, or the snapshot has none for it.
ChangedSince(d, entry) ==
  /\ d \in DOMAIN dependencies
  /\ \/ d \notin DOMAIN entry.dependencies
     \/ dependencies[d].version # entry.dependencies[d].version

\* C23: the dependency-based check answers true exactly when some key listed
\* in options.dependencies has a current dependency record whose version
\* differs from the one in the entry's snapshot taken at write time, a key
\* the snapshot lacks counting as changed; it answers false when every
\* listed dependency's current version equals its snapshot version.
C23_DependencyChangeDetected ==
  [][(Invalidates("dependency-based")
      /\ Supplied(invocation'.options, "dependencies"))
     => LET entry == entries[invocation'.key]
            listed == invocation'.options.dependencies
        IN  /\ invocation'.result \in {"true", "false"}
            /\ (invocation'.result = "true")
                 <=> \E i \in 1..Len(listed) : ChangedSince(listed[i], entry)
            /\ (\A i \in 1..Len(listed) :
                  /\ listed[i] \in DOMAIN dependencies
                  /\ listed[i] \in DOMAIN entry.dependencies
                  /\ dependencies[listed[i]].version =
                       entry.dependencies[listed[i]].version)
               => invocation'.result = "false"]_vars

\* A dependency-based invalidation has answered true for an entry whose
\* snapshot holds an older version of childA than the current record.
C23_Witness ==
  /\ invocation.op = "invalidateCache"
  /\ invocation.strategies = << "dependency-based" >>
  /\ invocation.result = "true"
  /\ "childA" \in DOMAIN dependencies
  /\ "dependencies" \in DOMAIN cacheEntry
  /\ "childA" \in DOMAIN cacheEntry.dependencies
  /\ cacheEntry.dependencies["childA"].version < dependencies["childA"].version

\* C24: when an entry was written with a snapshot of childA's version and
\* registerDependency was called for childA after that write (it is the
\* manager's last call), a dependency-based evaluation of the entry that
\* lists childA returns true, whatever time passed in between.
C24_ReRegistrationInvalidates ==
  [][(/\ Invalidates("dependency-based")
      /\ invocation'.options = [dependencies |-> << "childA" >>]
      /\ "childA" \in DOMAIN entries[invocation'.key].dependencies
      /\ invocation.op = "registerDependency"
      /\ invocation.key = "childA")
     => invocation'.result = "true"]_vars

\* C25: invalidateCache(key, 'usage-based', options) on a stored entry
\* returns true and clears the entry exactly when the hits the entry had
\* received before the call are fewer than minHits (1 unless supplied) and
\* the sizes of the memory tier's entries add up to more than maxSize (100
\* unless supplied); an entry written and never read is cleared when the
\* memory tier is over maxSize.
C25_UnusedEntryClearedUnderPressure ==
  [][Invalidates("usage-based")
     => LET k == invocation'.key
            options == invocation'.options
            expected ==
              /\ entries[k].accessCount < OrDefault(options, "minHits", 1)
              /\ getTotalCacheSize(entries) > OrDefault(options, "maxSize", 100)
        IN  IF expected
            THEN invocation'.result = "true" /\ k \notin DOMAIN entries'
            ELSE invocation'.result = "false" /\ k \in DOMAIN entries']_vars

\* C26: invalidateCache with a strategy name that is not registered fails
\* with the unknown-strategy error for every key, stored or not, and leaves
\* the stored entries, their access counts included, as they were.
C26_UnknownStrategyFailsCleanly ==
  [][(/\ Called("invalidateCache")
      /\ invocation'.strategies = << UnknownStrategy >>
      /\ invocation'.result # StorageError)
     => /\ invocation'.result = UnknownStrategyError
        /\ entries' = entries]_vars

\* C27: smartRefresh on a stored entry evaluates its strategies from left to
\* right and stops at the first whose check answers true: nothing is
\* evaluated after it and only its action is executed; when no check answers
\* true, no action is executed and the cached value is returned unchanged.
C27_StopsAtFirstTrigger ==
  [][(Called("smartRefresh") /\ invocation'.key \in DOMAIN entries)
     => LET k == invocation'.key
            n == Len(invocation'.verdicts)
        IN  /\ invocation'.evaluated = SubSeq(invocation'.strategies, 1, n)
            /\ \A i \in 1..(n - 1) : ~invocation'.verdicts[i]
            /\ IF n > 0 /\ invocation'.verdicts[n]
               THEN invocation'.actions
                      = << ActionOf(invocation'.evaluated[n]) >>
               ELSE /\ invocation'.actions = << >>
                    /\ invocation'.result = entries[k].data
                    /\ k \in DOMAIN entries'
                    /\ entries'[k].data = entries[k].data]_vars

\* C28: the version of a DependencyRecord never decreases and no record is
\* ever removed; the records change only in a registerDependency call, and
\* setCache, getStaleData, invalidateCache, smartRefresh and
\* invalidateByPattern leave every record as it is.
C28_DependencyVersionsOnlyGrow ==
  [][/\ \A d \in DOMAIN dependencies :
          /\ d \in DOMAIN dependencies'
          /\ dependencies'[d].version >= dependencies[d].version
     /\ dependencies' # dependencies => Called("registerDependency")]_vars

\* A dependency registered after time 0 carries that time as its version.
C28_Witness ==
  /\ invocation.op = "registerDependency"
  /\ invocation.key \in DOMAIN dependencies
  /\ dependencies[invocation.key].version = now
  /\ now > 0

\* C29: invalidateByPattern runs invalidateCache for every stored key the
\* pattern matches, each ending as it would on its own or in the storage's
\* rejection, whatever happens to the others; total counts the matching
\* keys, invalidated those answered true and so cleared, failed those
\* rejected, and invalidated + failed never exceeds total.
C29_BatchCountsEveryKey ==
  [][Called("invalidateByPattern")
     => LET pattern == invocation'.key
            strategy == invocation'.strategies[1]
            outcomes == invocation'.outcomes
            report == invocation'.report
            matching == {k \in DOMAIN entries : Matches(k, pattern)}
            alone(k) == invalidateCache(entries, dependencies, k, strategy,
                                        EmptyMap, now, FALSE)
        IN  /\ DOMAIN outcomes = matching
            /\ \A k \in matching :
                 /\ outcomes[k] \in {alone(k).result, StorageError}
                 /\ outcomes[k] = "true" <=> k \notin DOMAIN entries'
            /\ \A k \in DOMAIN entries \ matching :
                 /\ k \in DOMAIN entries'
                 /\ entries'[k] = entries[k]
            /\ report.total = Cardinality(matching)
            /\ report.invalidated
                 = Cardinality({k \in matching : outcomes[k] = "true"})
            /\ report.failed
                 = Cardinality({k \in matching :
                                  outcomes[k] \notin {"true", "false"}})
            /\ report.invalidated + report.failed <= report.total]_vars

\* A batch over the two user keys has cleared one of them and counted the
\* storage's rejection of the other as the one failure.
C29_Witness ==
  /\ invocation.op = "invalidateByPattern"
  /\ invocation.key = "user:"
  /\ invocation.report = [total |-> 2, invalidated |-> 1, failed |-> 1]
  /\ invocation.outcomes["user:1"] = StorageError
  /\ invocation.outcomes["user:2"] = "true"
  /\ DOMAIN entries \cap {"user:1", "user:2"} = {"user:1"}

\* A header name in lower case.
UpperCase == "ABCDEFGHIJKLMNOPQRSTUVWXYZ"
LowerCase == "abcdefghijklmnopqrstuvwxyz"
RECURSIVE toLowerCase(_, _)
toLowerCase(name, n) ==
  IF n = 0 THEN ""
  ELSE LET char == SubSeq(name, n, n)
           upper == {i \in 1..Len(UpperCase) : SubSeq(UpperCase, i, i) = char}
       IN  toLowerCase(name, n - 1)
             \o (IF upper = {} THEN char
                 ELSE LET i == CHOOSE i \in upper : TRUE
                      IN  SubSeq(LowerCase, i, i))

\* The header names whose values are to be kept out of the key.
SensitiveHeader(name) ==
  toLowerCase(name, Len(name)) \in {"authorization", "cookie", "api-key"}

\* Two requests that are equal but for the values of sensitive headers.
SameButSensitiveValues(a, b) ==
  LET ha == a.options.headers
      hb == b.options.headers
  IN  /\ a.url = b.url
      /\ DOMAIN a.options = DOMAIN b.options
      /\ \A x \in DOMAIN a.options \ {"headers"} : a.options[x] = b.options[x]
      /\ Len(ha) = Len(hb)
      /\ \A i \in DOMAIN ha :
           /\ ha[i].name = hb[i].name
           /\ ha[i].value # hb[i].value => SensitiveHeader(ha[i].name)

\* C30: two requests that are equal but for the values of headers named
\* authorization, cookie or api-key, in any letter case, receive the same
\* cache key.
C30_KeyIgnoresSensitiveValues ==
  (cacheKeys # NoKeys /\ SameButSensitiveValues(descriptors[1], descriptors[2]))
    => cacheKeys[1] = cacheKeys[2]

\* C33: a call that the open breaker refuses within its cooldown leaves the
\* breaker of its origin as it is: consecutiveFailures, state and openedAt
\* are unchanged.
C33_RefusalNotCounted ==
  [][\A c \in Callers :
       (/\ pc[c] = "get" /\ pc'[c] # "get"
        /\ local[c] = Null
        /\ ~ShouldJoin(opts[c])
        /\ OpenInCooldown(Breaker(KeyOf(c)), now))
         => circuitBreaker'[UrlOf(KeyOf(c))] = Breaker(KeyOf(c))]_vars

\* C34: while a deduplicating fetch F holds a key, a call with deduplicate
\* false for the same key leaves F's pending marker and F's waiters alone:
\* in every step in which F does not itself settle, the marker stays and
\* every caller that joined F stays queued.
C34_PreloadLeavesFetchAlone ==
  [][\A k \in Keys :
       LET f == starter[k]
       IN  (/\ k \in pendingRequests
            /\ f # 0
            /\ pc[f] \in {"fetch", "set", "stale"}
            /\ opts[f].key = k /\ opts[f].deduplicate
            /\ pc'[f] # "done")
             => /\ k \in pendingRequests'
                /\ \A w \in Waiters(k) : pc'[w] = "queued"]_vars

\* C36: every entry of the memory tier carries a definite expiry, the time
\* it entered the tier plus a TTL, whether a set wrote it or a redis hit
\* promoted it.
C36_EntriesCarryExpiry ==
  \A i \in DOMAIN memoryCache :
    /\ memoryCache[i].expiry # NaN
    /\ memoryCache[i].expiry <= now + TTL

\* C38: a set of a key the memory tier already holds, while the tier is at
\* its limit, replaces that key's entry and evicts no other entry.
C38_OverwriteEvictsNothing ==
  [][\A p \in Clients :
       (/\ SetStep(p)
        /\ MapHas(memoryCache, call'[p].key)
        /\ Len(memoryCache) >= memoryLimit)
       => /\ MapHas(memoryCache', call'[p].key)
          /\ Evicted = {}]_vars

\* C37: read-your-write.  Right after set(key, value) has written, the memory
\* tier holds the key with that value, whether or not the write evicted
\* entries; and a get of a key that the memory tier holds unexpired, made
\* without skipMemory, returns the value held there.
C37_ReadYourWrite ==
  [][\A p \in Clients :
       /\ SetStep(p)
          => /\ MapHas(memoryCache', call'[p].key)
             /\ MapGet(memoryCache', call'[p].key).value = call'[p].value
       /\ (/\ GetEnds(p) /\ ~call'[p].skipMemory
           /\ MapHas(memoryCache, call'[p].key)
           /\ now < MapGet(memoryCache, call'[p].key).expiry)
          => result'[p] = MapGet(memoryCache, call'[p].key).value]_vars

\* C35: once del(key) has completed and nobody has set the key since, the
\* memory tier does not hold the key, also when a get of the key was waiting
\* for redis while del ran: the get's promotion does not bring the deleted
\* value back.  (Under SpecRace nobody sets; the caller of del still holds
\* its result.)
C35_DeletedStaysAbsent ==
  \A p \in DOMAIN call :
    (/\ stage[p] = "done" /\ call[p].op = "del"
     /\ result[p] # RedisError)
    => ~MapHas(memoryCache, call[p].key)

MethodOf(r) == OrDefault(r.options, "method", "GET")
BodyOf(r) == OrDefault(r.options, "body", "")

\* C40: two requests that differ in the url, in the method or in the body
\* receive different cache keys.
C40_DifferentRequestsDifferentKeys ==
  (/\ cacheKeys # NoKeys
   /\ \/ descriptors[1].url # descriptors[2].url
      \/ MethodOf(descriptors[1]) # MethodOf(descriptors[2])
      \/ BodyOf(descriptors[1]) # BodyOf(descriptors[2]))
  => cacheKeys[1] # cacheKeys[2]

\* The request of the event is one handleFetch takes on: a GET of the
\* worker's own origin.
Handled ==
  /\ fetchEvent # NoEvent
  /\ fetchEvent.method = "GET"
  /\ fetchEvent.origin = "same"

\* The strategy configured for the first cache type whose patterns match
\* the path.
Configured(pathname) ==
  IF patternsMatch("static", pathname) THEN "cache_first"
  ELSE IF patternsMatch("api", pathname) THEN "network_first"
  ELSE "stale_while_revalidate"

\* C31: for a same-origin GET, handleFetch runs the strategy configured for
\* the first cache type whose pattern matches the path: cache_first for
\* static paths, network_first for /api/ paths, stale_while_revalidate for
\* pages; and stale_while_revalidate resolves with the cached response if
\* there is one, else with the network's response, else with the offline
\* fallback.
C31_ConfiguredStrategyRuns ==
  [][/\ (Handled' /\ worker.pc = "idle" /\ worker'.pc # "idle")
          => /\ worker'.strategy = Configured(fetchEvent'.path)
             /\ worker'.ran
             /\ worker'.pc = "strategy"
     /\ (/\ worker.pc = "strategy" /\ worker'.pc = "done"
         /\ worker.strategy = "stale_while_revalidate")
          => worker'.response =
               IF fetchEvent.path \in cacheStorage["pages"] THEN Cached
               ELSE IF worker'.net = "failed"
                    THEN getFallbackResponse(cacheStorage, fetchEvent.path)
                    ELSE FromNetwork(worker'.net)]_vars

\* C32: a same-origin GET that has reached handleFetch is answered with
\* exactly one respondWith, and handleFetch does not end with an error
\* thrown in its catch block: when the strategy fails, the answer is the
\* network's.
C32_AnsweredOnce ==
  (Handled /\ worker.pc = "done")
    => /\ Len(worker.answers) = 1
       /\ worker.thrown = Null

=============================================================================
